---------------------------- MODULE Spec2Model ----------------------------
(***************************************************************************)
(* Neti network scanner: the concurrent scan coordinator                   *)
(* (Scanner.ScanSubnet, src/scanner.go) and the MAC resolver               *)
(* (macaddr.Resolver, src/macaddr/resolver.go, src/macaddr/arp_linux.go).  *)
(*                                                                         *)
(* Go strings that the code takes apart (IP addresses) are sequences of    *)
(* one-character strings; MAC strings and host names are atoms with the    *)
(* conversions the code applies to them given as tables.                   *)
(***************************************************************************)
EXTENDS Integers, Sequences, FiniteSets, TLC

(***************************************************************************)
(* Bounds of the model.                                                    *)
(***************************************************************************)
\* longest candidate list handed to ScanSubnet
MaxIPs == 2
\* largest Scanner.Concurrency drawn by Init
MaxConc == 2
\* shortest network prefix among the subnets main is started with
MinPrefix == 28
\* goroutines that call GetMACAddress on one resolver in SpecResolver
NumCallers == 2
\* calls they make in all
MaxCalls == 2

\* the zero value of sync.Mutex: no goroutine holds it
Unlocked == 0

\* Scanner.Concurrency as NewScanner sets it
DefaultConcurrency == 20

\* Timeout of NewScanner, 500 ms, and the read deadline pingIP re-arms,
\* 100 ms, in ticks of 50 ms
Timeout == 10
ReadWindow == 2

\* packets one pingIP call reads at most
MaxReads == 3

\* how many addresses at each end of a network the loop of GetIPsFromSubnet
\* is followed through one by one
NearEnds == 4

\* the vendor lookups one run of the program makes at most
MaxLookups == 4

(***************************************************************************)
(* net.IP / string conversions                                             *)
(***************************************************************************)
Digit == <<"0", "1", "2", "3", "4", "5", "6", "7", "8", "9">>

\* the byte value of a character, for Go's bytewise string comparison
CharCode(c) ==
    CASE c = "." -> 46
      [] c = "0" -> 48 [] c = "1" -> 49 [] c = "2" -> 50 [] c = "3" -> 51
      [] c = "4" -> 52 [] c = "5" -> 53 [] c = "6" -> 54 [] c = "7" -> 55
      [] c = "8" -> 56 [] c = "9" -> 57
      [] OTHER   -> 255

\* the value of a decimal digit character, -1 for any other character
DigitVal(c) ==
    IF c \in {Digit[i] : i \in 1..10}
    THEN CHOOSE d \in 0..9 : Digit[d + 1] = c
    ELSE -1

\* decimal rendering of a byte, without leading zeros
Itoa(n) ==
    IF n < 10 THEN <<Digit[n + 1]>>
    ELSE IF n < 100 THEN <<Digit[(n \div 10) + 1], Digit[(n % 10) + 1]>>
    ELSE <<Digit[(n \div 100) + 1], Digit[((n \div 10) % 10) + 1], Digit[(n % 10) + 1]>>

\* net.IP.String() of a 4-byte address
IPString(b) == Itoa(b[1]) \o <<".">> \o Itoa(b[2]) \o <<".">> \o Itoa(b[3]) \o <<".">> \o Itoa(b[4])

\* the fields of s between its dots, when s has exactly three of them;
\* <<>> otherwise
DottedFields(s) ==
    CHOOSE fs \in
        {IF Cardinality(dots) # 3 THEN <<>>
         ELSE CHOOSE f \in
                {<<SubSeq(s, 1, d1 - 1), SubSeq(s, d1 + 1, d2 - 1),
                   SubSeq(s, d2 + 1, d3 - 1), SubSeq(s, d3 + 1, Len(s))>> :
                 d1 \in {i \in dots : \A j \in dots : i <= j},
                 d3 \in {i \in dots : \A j \in dots : j <= i},
                 d2 \in {i \in dots : \E j, k \in dots : j < i /\ i < k}} : TRUE
         : dots \in {{i \in 1..Len(s) : s[i] = "."}}} : TRUE

\* one dotted-decimal field: 1..3 digits, no leading zero
ValidField(f) ==
    /\ Len(f) \in 1..3
    /\ \A i \in 1..Len(f) : DigitVal(f[i]) >= 0
    /\ (Len(f) > 1 => f[1] # "0")

\* the number a valid field stands for
Atoi(f) ==
    IF Len(f) = 1 THEN DigitVal(f[1])
    ELSE IF Len(f) = 2 THEN DigitVal(f[1]) * 10 + DigitVal(f[2])
    ELSE DigitVal(f[1]) * 100 + DigitVal(f[2]) * 10 + DigitVal(f[3])

\* net.ParseIP(s).To4(): the four bytes, or <<>> (nil) when s is no IPv4
\* address. (The fields are bound by a quantifier over a one-element set so
\* that they are computed once.)
ParseIPv4(s) ==
    CHOOSE b \in {IF Len(fs) = 4 /\ \A i \in 1..4 : ValidField(fs[i]) /\ Atoi(fs[i]) <= 255
                  THEN [i \in 1..4 |-> Atoi(fs[i])]
                  ELSE <<>> : fs \in {DottedFields(s)}} : TRUE

\* binary.BigEndian.Uint32, as its high and low 16 bits (the value is
\* hi * 65536 + lo, which exceeds the integers TLC computes with)
BigEndianUint32(b) == [hi |-> b[1] * 256 + b[2], lo |-> b[3] * 256 + b[4]]

\* u < v on uint32 values
Uint32Less(u, v) == u.hi < v.hi \/ (u.hi = v.hi /\ u.lo < v.lo)

\* Go's s < t on strings: bytewise lexical order. s is a proper prefix of t,
\* or the first byte they differ in is smaller in s
StringLess(s, t) ==
    \E k \in 1..Len(t) :
        /\ \A i \in 1..(k - 1) : i <= Len(s) /\ s[i] = t[i]
        /\ k - 1 <= Len(s)
        /\ (k <= Len(s) => CharCode(s[k]) < CharCode(t[k]))

\* strings.ToUpper on the MAC strings of the model
ToUpper(m) ==
    CASE m = "aa:bb:cc:00:00:09" -> "AA:BB:CC:00:00:09"
      [] m = "de:ad:be:ef:00:01" -> "DE:AD:BE:EF:00:01"
      [] OTHER -> m

\* strings.TrimSuffix(name, ".") on the host names of the model
TrimSuffixDot(n) ==
    CASE n = "printer.lan." -> "printer.lan"
      [] OTHER -> n

(***************************************************************************)
(* The network the scan runs in                                            *)
(***************************************************************************)
IPa == IPString(<<192, 168, 1, 9>>)
IPb == IPString(<<192, 168, 1, 10>>)
IPc == IPString(<<192, 168, 1, 100>>)

\* the addresses a candidate list is drawn from
Candidates == {IPa, IPb, IPc}

\* net.Interfaces(): the scanning machine has one interface that is up, bound
\* to IPc, with this hardware address (as HardwareAddr.String() prints it)
LocalAddrs == {IPc}
LocalHardwareAddr == "de:ad:be:ef:00:01"

\* what a line of the neighbour table can carry in its HW address column
RawMACs(i) ==
    IF i = IPa THEN {"aa:bb:cc:00:00:09", "00:00:00:00:00:00"}
    ELSE IF i = IPc THEN {LocalHardwareAddr}
    ELSE {}

\* the addresses the neighbour table can have a line for
Neighbours == {IPa}

\* the same for SpecResolver: the table may also list the machine's own
\* address, with the hardware address of its interface
ResolverNeighbours == {IPa, IPc}

\* the fixed TCP port list of getOpenPorts, in probing order
commonPorts == <<80, 443, 22, 21, 23, 25, 53, 135, 139, 445>>

\* the sets of ports a probed host may have open
OpenPortSets == {{}, {22, 80}}

\* what net.LookupAddr may return as names[0]; "" stands for an error or no name
LookupNames == {"", "printer.lan."}


(***************************************************************************)
(* State                                                                   *)
(***************************************************************************)
VARIABLES
    \* Scanner fields and the arguments of ScanSubnet
    Concurrency, UseTCP, ips,
    \* locals of ScanSubnet shared by its goroutines
    semaphore, mu, wg, reachableHosts, completed,
    \* the main goroutine: where it is, how many goroutines it has started,
    \* and the ScanResult it returned
    mainpc, started, result,
    \* the calls the progress callback has received, in order
    progressLog,
    \* per goroutine: position, the ip parameter, and the locals of the closure
    pc, ip, icmpReachable, openPorts, foundVia, mac, hostname,
    \* Resolver fields
    cache, arpLoaded, mutex, loadARPTableFunc,
    \* the operating system's neighbour table: address -> HW address column
    osTable,
    \* observation: how often a loader has parsed the table into the cache
    parses,
    \* observation, per goroutine: the HW address column the table had for ip
    \* when the current call last asked for a reload of an already loaded
    \* table ("" when it had no line, or no such reload was asked for)
    tableAtReload,
    \* observation, per goroutine: os.Open of the table has failed in a loader
    \* call of its current GetMACAddress call
    loadFailed,
    \* observation, per goroutine: what its current GetMACAddress call has done
    \* so far, in order: "hit" or "miss" for a cache lookup, "local:hit" or
    \* "local:miss" for the scan of the interfaces, "load" for a loader call,
    \* "arp" for sendARPRequest
    callLog,
    \* SpecResolver, per caller: how many calls it has made, arpLoaded when
    \* its current call began, and its previous call: the address asked for,
    \* the result, arpLoaded when it began, and whether the neighbour table
    \* has changed since it returned
    calls, loadedAtCall, prevCall,
    \* main: the subnet argument, and whether GetIPsFromSubnet returned an error
    subnet, expandErr,
    \* the scanner with UDP probing: the UseUDP field, per goroutine the locals
    \* tcpPorts and udpPorts, and (observation) whether getOpenUDPPorts was
    \* called for its host
    UseUDP, tcpPorts, udpPorts, udpSwept,
    \* one pingIP call: the clock, the locals deadline and the read deadline of
    \* the connection, the position, the value returned, and (observation) the
    \* packets ReadFrom has returned, each with its sender and the time
    now, deadline, readDeadline, pingpc, pingResult, reads,
    \* the loop of one GetIPsFromSubnet call: the position, ipNet as the masked
    \* address and the prefix length, the loop variable ip, and the element
    \* appended last to ips (<<>> while ips is empty)
    enumpc, ipNet, enumIP, lastAppended,
    \* one getOpenUDPPorts call: the position, the index of the port in
    \* udpPorts, the local open, and for the port at hand the outcomes of the
    \* writes made on its socket (TRUE = written), the time ReadFrom has
    \* blocked, and what ReadFrom returned
    sweeppc, portIdx, openUDP, writes, waited, lastRead,
    \* the vendor lookups of main: the position, the OUI file on disk (whether
    \* it exists, and the vendor per OUI prefix its lines give), the package
    \* variables ouiCache and loadOUICacheOnce (done or not), and
    \* (observation) how often loadOUICache has run, how many lookups were
    \* made, and the argument and the result of the last one
    vendorpc, ouiFile, ouiCache, loadOUICacheOnce, ouiLoads, lookups, lastLookup

scanVars == <<Concurrency, UseTCP, ips, semaphore, mu, wg, reachableHosts,
              completed, mainpc, started, result, progressLog>>
taskVars == <<pc, ip, icmpReachable, openPorts, foundVia, mac, hostname>>
resolverVars == <<cache, arpLoaded, mutex, loadARPTableFunc>>
obsVars == <<parses, tableAtReload, loadFailed, callLog>>
harnessVars == <<calls, loadedAtCall, prevCall>>
mainVars == <<subnet, expandErr>>
udpVars == <<UseUDP, tcpPorts, udpPorts, udpSwept>>
pingVars == <<now, deadline, readDeadline, pingpc, pingResult, reads>>
enumVars == <<enumpc, ipNet, enumIP, lastAppended>>
sweepVars == <<sweeppc, portIdx, openUDP, writes, waited, lastRead>>
vendorVars == <<vendorpc, ouiFile, ouiCache, loadOUICacheOnce, ouiLoads, lookups, lastLookup>>
auxVars == <<enumVars, sweepVars, vendorVars>>
baseVars == <<scanVars, taskVars, resolverVars, osTable, obsVars, harnessVars, mainVars,
              udpVars, pingVars>>
vars == <<baseVars, auxVars>>

Tasks == DOMAIN pc

(***************************************************************************)
(* macaddr: loaders and lookups                                            *)
(***************************************************************************)
\* isValidMAC: net.ParseMAC accepts every HW address column of the model;
\* the all-zero address of an incomplete entry is refused
isValidMAC(m) == m # "00:00:00:00:00:00"

\* make(map[string]string)
EmptyCache == [i \in {} |-> ""]

\* the body of loadLinuxARPTable between Lock and Unlock: the resolver fields
\* after it, whether it parsed, and whether os.Open failed; readable =
\* os.Open succeeded
loadLinuxARPTableNoRecheck(c, loaded, table, readable) ==
    IF ~readable THEN [cache |-> c, arpLoaded |-> loaded, parsed |-> FALSE, failed |-> TRUE]
    ELSE LET valid == {i \in DOMAIN table : isValidMAC(table[i])}
         IN [cache |-> [i \in DOMAIN c \cup valid |->
                          IF i \in valid THEN ToUpper(table[i]) ELSE c[i]],
             arpLoaded |-> TRUE,
             parsed |-> TRUE, failed |-> FALSE]

loadLinuxARPTablePurging(c, loaded, table, readable) ==
    IF loaded THEN [cache |-> c, arpLoaded |-> loaded, parsed |-> FALSE, failed |-> FALSE]
    ELSE IF ~readable THEN [cache |-> c, arpLoaded |-> loaded, parsed |-> FALSE, failed |-> TRUE]
    ELSE LET valid == {i \in DOMAIN table : isValidMAC(table[i])}
         IN [cache |-> [i \in valid |-> ToUpper(table[i])],
             arpLoaded |-> TRUE,
             parsed |-> TRUE, failed |-> FALSE]

loadLinuxARPTableResetting(c, loaded, table, readable) ==
    IF ~readable THEN [cache |-> c, arpLoaded |-> FALSE, parsed |-> FALSE, failed |-> TRUE]
    ELSE IF loaded THEN [cache |-> c, arpLoaded |-> loaded, parsed |-> FALSE, failed |-> FALSE]
    ELSE LET valid == {i \in DOMAIN table : isValidMAC(table[i])}
         IN [cache |-> [i \in DOMAIN c \cup valid |->
                          IF i \in valid THEN ToUpper(table[i]) ELSE c[i]],
             arpLoaded |-> TRUE,
             parsed |-> TRUE, failed |-> FALSE]

loadLinuxARPTableMarking(c, loaded, table, readable) ==
    IF loaded THEN [cache |-> c, arpLoaded |-> loaded, parsed |-> FALSE, failed |-> FALSE]
    ELSE IF ~readable THEN [cache |-> c, arpLoaded |-> TRUE, parsed |-> FALSE, failed |-> TRUE]
    ELSE LET valid == {i \in DOMAIN table : isValidMAC(table[i])}
         IN [cache |-> [i \in DOMAIN c \cup valid |->
                          IF i \in valid THEN ToUpper(table[i]) ELSE c[i]],
             arpLoaded |-> TRUE,
             parsed |-> TRUE, failed |-> FALSE]

loadLinuxARPTableClearing(c, loaded, table, readable) ==
    IF loaded THEN [cache |-> c, arpLoaded |-> loaded, parsed |-> FALSE, failed |-> FALSE]
    ELSE IF ~readable THEN [cache |-> EmptyCache, arpLoaded |-> loaded, parsed |-> FALSE,
                            failed |-> TRUE]
    ELSE LET valid == {i \in DOMAIN table : isValidMAC(table[i])}
         IN [cache |-> [i \in DOMAIN c \cup valid |->
                          IF i \in valid THEN ToUpper(table[i]) ELSE c[i]],
             arpLoaded |-> TRUE,
             parsed |-> TRUE, failed |-> FALSE]

loadLinuxARPTable(c, loaded, table, readable) ==
    IF loaded THEN [cache |-> c, arpLoaded |-> loaded, parsed |-> FALSE, failed |-> FALSE]
    ELSE IF ~readable THEN [cache |-> c, arpLoaded |-> loaded, parsed |-> FALSE, failed |-> TRUE]
    ELSE LET valid == {i \in DOMAIN table : isValidMAC(table[i])}
         IN [cache |-> [i \in DOMAIN c \cup valid |->
                          IF i \in valid THEN ToUpper(table[i]) ELSE c[i]],
             arpLoaded |-> TRUE,
             parsed |-> TRUE, failed |-> FALSE]

\* the body of loadDarwinARPTable: the same re-check, then a placeholder that
\* only sets the flag
loadDarwinARPTable(c, loaded, table, readable) ==
    IF loaded THEN [cache |-> c, arpLoaded |-> loaded, parsed |-> FALSE, failed |-> FALSE]
    ELSE [cache |-> c, arpLoaded |-> TRUE, parsed |-> FALSE, failed |-> FALSE]

\* r.loadARPTableFunc(r) for the loader the resolver was built with
LoaderBody(f, c, loaded, table, readable) ==
    IF f = "linux" THEN loadLinuxARPTable(c, loaded, table, readable)
    ELSE loadDarwinARPTable(c, loaded, table, readable)

\* NewResolver: an empty cache, then the pre-load, or arpLoaded = true when
\* the platform has no loader ("nil")
NewResolverUnmarked(f, table, readable) ==
    IF f # "nil" THEN LoaderBody(f, EmptyCache, FALSE, table, readable)
    ELSE [cache |-> EmptyCache, arpLoaded |-> FALSE, parsed |-> FALSE, failed |-> FALSE]

NewResolver(f, table, readable) ==
    IF f # "nil" THEN LoaderBody(f, EmptyCache, FALSE, table, readable)
    ELSE [cache |-> EmptyCache, arpLoaded |-> TRUE, parsed |-> FALSE, failed |-> FALSE]

\* the map read of getMACFromCache
CacheLookup(c, i) == IF i \in DOMAIN c THEN c[i] ELSE ""

\* getMACFromLocalInterfaces
getMACFromLocalInterfacesRaw(i) ==
    IF ParseIPv4(i) = <<>> THEN ""
    ELSE IF i \in LocalAddrs THEN LocalHardwareAddr
    ELSE ""

getMACFromLocalInterfacesNone(i) == ""

getMACFromLocalInterfaces(i) ==
    IF ParseIPv4(i) = <<>> THEN ""
    ELSE IF i \in LocalAddrs THEN ToUpper(LocalHardwareAddr)
    ELSE ""

\* the neighbour tables the operating system can show with lines for
\* addresses of N
OSTablesOver(N) ==
    UNION {{t \in [D -> UNION {RawMACs(i) : i \in D}] : \A i \in D : t[i] \in RawMACs(i)}
           : D \in SUBSET N}

OSTables == OSTablesOver(Neighbours)

\* the loaders runtime.GOOS can select; "nil" is a platform without one
Loaders == {"linux", "darwin", "nil"}

(***************************************************************************)
(* Scanner: pure parts of ScanSubnet                                       *)
(***************************************************************************)
\* getOpenPorts: the ports of commonPorts that accept a connection, in
\* probing order
getOpenPorts(open) == SelectSeq(commonPorts, LAMBDA p : p \in open)

\* foundVia as the task computes it from the two probes
FoundViaIcmpFirst(icmp, ports) ==
    IF icmp THEN "ICMP"
    ELSE IF Len(ports) > 0 THEN "TCP" ELSE ""

FoundVia(icmp, ports) ==
    IF icmp THEN (IF Len(ports) > 0 THEN "ICMP+TCP" ELSE "ICMP")
    ELSE IF Len(ports) > 0 THEN "TCP" ELSE ""

\* isReachable := icmpReachable || len(openPorts) > 0
isReachableIcmpOnly(icmp, ports) == icmp
isReachable(icmp, ports) == icmp \/ Len(ports) > 0

\* the comparison function handed to sort.Slice
lessLexical(a, b) == StringLess(a.IP, b.IP)
less(a, b) ==
    \E ip1 \in {ParseIPv4(a.IP)}, ip2 \in {ParseIPv4(b.IP)} :
        IF ip1 # <<>> /\ ip2 # <<>>
        THEN \E u \in {BigEndianUint32(ip1)}, v \in {BigEndianUint32(ip2)} : Uint32Less(u, v)
        ELSE StringLess(a.IP, b.IP)

\* the orders sort.Slice may leave hosts in: a permutation in which no element
\* is less than one before it (the sort is not stable)
Sorted(hosts) ==
    LET n == Len(hosts)
        perms == {f \in [1..n -> 1..n] : \A i, j \in 1..n : i # j => f[i] # f[j]}
    IN {[i \in 1..n |-> hosts[f[i]]] : f \in
          {g \in perms : \A i, j \in 1..n : i < j => ~less(hosts[g[j]], hosts[g[i]])}}

(***************************************************************************)
(* Scanner.GetIPsFromSubnet                                                *)
(***************************************************************************)
RECURSIVE Pow2(_)
Pow2(k) == IF k = 0 THEN 1 ELSE 2 * Pow2(k - 1)

\* how many of the leading `ones` bits of a mask fall into byte j
MaskBits(ones, j) ==
    IF ones - 8 * (j - 1) < 0 THEN 0
    ELSE IF ones - 8 * (j - 1) > 8 THEN 8
    ELSE ones - 8 * (j - 1)

\* IP.Mask with the mask of `ones` leading one bits: the low bits of every
\* byte are cleared
MaskIP(b, ones) == [j \in 1..4 |-> b[j] - (b[j] % Pow2(8 - MaskBits(ones, j)))]

\* IPNet.Contains
Contains(net, ones, b) == MaskIP(b, ones) = net

\* the prefix length after the slash: decimal digits, -1 when there are none
\* or something else
PrefixLen(m) ==
    IF Len(m) \in 1..3 /\ \A i \in 1..Len(m) : DigitVal(m[i]) >= 0 THEN Atoi(m) ELSE -1

\* a ParseCIDR that leaves the address as it was written
ParseCIDRUnmasked(s) ==
    CHOOSE r \in
        {IF slashes = {} THEN [err |-> TRUE, IP |-> <<>>, ones |-> 0]
         ELSE CHOOSE q \in
               {IF a = <<>> \/ n < 0 \/ n > 32
                THEN [err |-> TRUE, IP |-> <<>>, ones |-> 0]
                ELSE [err |-> FALSE, IP |-> a, ones |-> n] :
                a \in {ParseIPv4(SubSeq(s, 1, i - 1)) : i \in {j \in slashes : \A k \in slashes : j <= k}},
                n \in {PrefixLen(SubSeq(s, i + 1, Len(s))) : i \in {j \in slashes : \A k \in slashes : j <= k}}} : TRUE
         : slashes \in {{i \in 1..Len(s) : s[i] = "/"}}} : TRUE

\* net.ParseCIDR on an IPv4 network: the masked address and the prefix
\* length, or an error
ParseCIDR(s) ==
    CHOOSE r \in
        {IF slashes = {} THEN [err |-> TRUE, IP |-> <<>>, ones |-> 0]
         ELSE CHOOSE q \in
               {IF a = <<>> \/ n < 0 \/ n > 32
                THEN [err |-> TRUE, IP |-> <<>>, ones |-> 0]
                ELSE [err |-> FALSE, IP |-> MaskIP(a, n), ones |-> n] :
                a \in {ParseIPv4(SubSeq(s, 1, i - 1)) : i \in {j \in slashes : \A k \in slashes : j <= k}},
                n \in {PrefixLen(SubSeq(s, i + 1, Len(s))) : i \in {j \in slashes : \A k \in slashes : j <= k}}} : TRUE
         : slashes \in {{i \in 1..Len(s) : s[i] = "/"}}} : TRUE

\* incrementIP: add one to byte j, carrying into the bytes before it while the
\* byte wraps to 0
RECURSIVE IncrementFrom(_, _)
IncrementFrom(b, j) ==
    IF j = 0 THEN b
    ELSE IF (b[j] + 1) % 256 > 0 THEN [b EXCEPT ![j] = (b[j] + 1) % 256]
    ELSE IncrementFrom([b EXCEPT ![j] = 0], j - 1)

incrementIP(b) == IncrementFrom(b, 4)

\* the loop of GetIPsFromSubnet from address b on: ip.String() of every
\* address up to the first one the network does not contain
RECURSIVE ExpandFrom(_, _, _, _)
ExpandFrom(net, ones, b, acc) ==
    IF Contains(net, ones, b)
    THEN CHOOSE r \in {ExpandFrom(net, ones, next, ips1) :
                          next \in {incrementIP(b)},
                          ips1 \in {Append(acc, IPString(b))}} : TRUE
    ELSE acc

\* the trimming of the network and the broadcast address
TrimAlways(all) == SubSeq(all, 2, Len(all) - 1)
TrimNever(all) == all
Trim(all) == IF Len(all) > 2 THEN SubSeq(all, 2, Len(all) - 1) ELSE all

\* GetIPsFromSubnet: the address list (nil on error) and whether it failed
GetIPsFromSubnetLenient(s) ==
    LET r == ParseCIDR(s)
    IN IF r.err THEN [ips |-> <<IPa>>, err |-> FALSE]
       ELSE [ips |-> Trim(ExpandFrom(r.IP, r.ones, MaskIP(r.IP, r.ones), <<>>)), err |-> FALSE]

GetIPsFromSubnet(s) ==
    LET r == ParseCIDR(s)
    IN IF r.err THEN [ips |-> <<>>, err |-> TRUE]
       ELSE [ips |-> Trim(ExpandFrom(r.IP, r.ones, MaskIP(r.IP, r.ones), <<>>)), err |-> FALSE]

\* the addresses main is given networks around
SubnetBases == {<<192, 168, 1, 9>>, <<192, 168, 1, 100>>, <<255, 255, 255, 255>>}

\* the networks main is asked to scan, as <<address, prefix length>>: small
\* ones around these addresses, and 192.168.1.0/26
SubnetChoices == (SubnetBases \X (MinPrefix..32)) \cup {<<<<192, 168, 1, 0>>, 26>>}

\* the argument that names network c
CIDRString(c) == IPString(c[1]) \o <<"/">> \o Itoa(c[2])

\* the well-formed -subnet arguments
ValidSubnets == {CIDRString(c) : c \in SubnetChoices}

\* arguments that are no network/mask pair
MalformedSubnets ==
    {<<"n", "o", "t", "-", "a", "-", "s", "u", "b", "n", "e", "t">>,
     IPString(<<192, 168, 1, 0>>),
     IPString(<<192, 168, 1, 0>>) \o <<"/">>,
     IPString(<<192, 168, 1, 0>>) \o <<"/", "3", "3">>,
     <<"1", "9", "2", ".", "1", "6", "8", ".", "1", ".", "2", "5", "6", "/", "2", "4">>,
     <<"1", "9", "2", ".", "1", "6", "8", ".", "1", "/", "2", "4">>}

(***************************************************************************)
(* Initial states                                                          *)
(***************************************************************************)
\* candidate lists of at most MaxIPs addresses, without duplicates and in
\* ascending order, as the loop of GetIPsFromSubnet lists the addresses of a
\* network
CandidateLists ==
    UNION {{l \in [1..n -> Candidates] :
                \A i, j \in 1..n :
                    i < j => Uint32Less(BigEndianUint32(ParseIPv4(l[i])),
                                        BigEndianUint32(ParseIPv4(l[j])))}
           : n \in 0..MaxIPs}

\* the resolver as NewResolver leaves it, and the neighbour table it read
InitResolverOver(tables) ==
    \E f \in Loaders, table \in tables, readable \in BOOLEAN :
        LET r == NewResolver(f, table, readable)
        IN /\ loadARPTableFunc = f
           /\ osTable = table
           /\ cache = r.cache
           /\ arpLoaded = r.arpLoaded
           /\ parses = (IF r.parsed THEN 1 ELSE 0)
           /\ mutex = Unlocked

InitResolver == InitResolverOver(OSTables)

\* no GetIPsFromSubnet loop is followed
EnumIdle ==
    /\ enumpc = "idle"
    /\ ipNet = [IP |-> <<>>, ones |-> 0]
    /\ enumIP = <<>>
    /\ lastAppended = <<>>

\* ReadFrom has not returned for the port at hand
NoRead == [n |-> 0, err |-> FALSE, done |-> FALSE]

\* no getOpenUDPPorts call is followed
SweepIdle ==
    /\ sweeppc = "idle"
    /\ portIdx = 0
    /\ openUDP = <<>>
    /\ writes = <<>>
    /\ waited = 0
    /\ lastRead = NoRead

\* no vendor lookup is followed
VendorIdle ==
    /\ vendorpc = "idle"
    /\ ouiFile = [exists |-> FALSE, entries |-> EmptyCache]
    /\ ouiCache = EmptyCache
    /\ loadOUICacheOnce = FALSE
    /\ ouiLoads = 0
    /\ lookups = 0
    /\ lastLookup = [mac |-> <<>>, vendor |-> ""]

AuxIdle == EnumIdle /\ SweepIdle /\ VendorIdle

\* no pingIP call is followed
PingIdle ==
    /\ AuxIdle
    /\ now = 0
    /\ deadline = 0
    /\ readDeadline = 0
    /\ pingpc = "idle"
    /\ pingResult = FALSE
    /\ reads = <<>>

\* no previous call
NoCall == [ip |-> <<>>, mac |-> "", loaded |-> FALSE, changed |-> FALSE, valid |-> FALSE]

InitTasks(n, at) ==
    /\ pc = [t \in 1..n |-> at]
    /\ ip = [t \in 1..n |-> <<>>]
    /\ icmpReachable = [t \in 1..n |-> FALSE]
    /\ openPorts = [t \in 1..n |-> <<>>]
    /\ foundVia = [t \in 1..n |-> ""]
    /\ mac = [t \in 1..n |-> ""]
    /\ hostname = [t \in 1..n |-> ""]
    /\ tableAtReload = [t \in 1..n |-> ""]
    /\ loadFailed = [t \in 1..n |-> FALSE]
    /\ callLog = [t \in 1..n |-> <<>>]
    /\ calls = [t \in 1..n |-> 0]
    /\ loadedAtCall = [t \in 1..n |-> FALSE]
    /\ prevCall = [t \in 1..n |-> NoCall]
    /\ tcpPorts = [t \in 1..n |-> <<>>]
    /\ udpPorts = [t \in 1..n |-> <<>>]
    /\ udpSwept = [t \in 1..n |-> FALSE]

\* NewScanner, the flags of main, and the entry of ScanSubnet
InitScan ==
    /\ Concurrency \in 0..MaxConc
    /\ UseTCP \in BOOLEAN
    /\ ips \in CandidateLists
    /\ semaphore = 0
    /\ mu = Unlocked
    /\ wg = 0
    /\ reachableHosts = <<>>
    /\ completed = 0
    /\ mainpc = "loop"
    /\ started = 0
    /\ result = <<>>
    /\ progressLog = <<>>
    /\ InitTasks(Len(ips), "unborn")
    /\ InitResolver
    /\ subnet = <<>>
    /\ expandErr = FALSE
    /\ PingIdle

\* the scanner of scanner.go has no UDP probing
Init == InitScan /\ UseUDP = FALSE

(***************************************************************************)
(* ScanSubnet: the main goroutine                                          *)
(***************************************************************************)
\* one iteration of the range loop: wg.Add(1); go func(ip string) {...}(ip)
Spawn ==
    /\ mainpc = "loop"
    /\ started < Len(ips)
    /\ started' = started + 1
    /\ wg' = wg + 1
    /\ pc' = [pc EXCEPT ![started + 1] = "acquire"]
    /\ ip' = [ip EXCEPT ![started + 1] = ips[started + 1]]
    /\ UNCHANGED <<Concurrency, UseTCP, ips, semaphore, mu, reachableHosts, completed,
                   mainpc, result, progressLog>>
    /\ UNCHANGED <<icmpReachable, openPorts, foundVia, mac, hostname>>
    /\ UNCHANGED <<resolverVars, osTable, obsVars, harnessVars, mainVars, udpVars, pingVars, auxVars>>

\* wg.Wait() returns, the hosts are sorted in place, the result is returned
WaitSortReturnReusingIps ==
    /\ mainpc = "loop"
    /\ started = Len(ips)
    /\ wg = 0
    /\ mainpc' = "returned"
    /\ reachableHosts' \in Sorted(reachableHosts)
    /\ ips' = [i \in 1..Len(reachableHosts) |-> reachableHosts'[i].IP]
    /\ result' = [ReachableHosts |-> reachableHosts', Total |-> Len(ips),
                  Completed |-> completed]
    /\ UNCHANGED <<Concurrency, UseTCP, semaphore, mu, wg, completed, started,
                   progressLog>>
    /\ UNCHANGED <<taskVars, resolverVars, osTable, obsVars, harnessVars, mainVars, udpVars, pingVars, auxVars>>

WaitSortReturn ==
    /\ mainpc = "loop"
    /\ started = Len(ips)
    /\ wg = 0
    /\ mainpc' = "returned"
    /\ reachableHosts' \in Sorted(reachableHosts)
    /\ result' = [ReachableHosts |-> reachableHosts', Total |-> Len(ips),
                  Completed |-> completed]
    /\ UNCHANGED <<Concurrency, UseTCP, ips, semaphore, mu, wg, completed, started,
                   progressLog>>
    /\ UNCHANGED <<taskVars, resolverVars, osTable, obsVars, harnessVars, mainVars, udpVars, pingVars, auxVars>>

(***************************************************************************)
(* ScanSubnet: one goroutine per candidate                                 *)
(***************************************************************************)
scanFrame == UNCHANGED <<Concurrency, UseTCP, ips, mainpc, started, result>>
localsFrame == UNCHANGED <<ip, icmpReachable, openPorts, foundVia, mac, hostname>>
restFrame == UNCHANGED <<resolverVars, osTable, obsVars, harnessVars, mainVars, udpVars, pingVars, auxVars>>

\* semaphore <- struct{}{} can proceed: the channel buffer has room
semHasRoomAlways == TRUE
semHasRoomInclusive == semaphore <= Concurrency
semHasRoom == semaphore < Concurrency

Acquire(t) ==
    /\ pc[t] = "acquire"
    /\ semHasRoom
    /\ semaphore' = semaphore + 1
    /\ pc' = [pc EXCEPT ![t] = "probe"]
    /\ scanFrame /\ localsFrame /\ restFrame
    /\ UNCHANGED <<mu, wg, reachableHosts, completed, progressLog>>

\* where the task goes after the probes: enrichment when ICMP answered,
\* the append for a host found by ports only, else straight to the progress
\* update
AfterProbeEarlyReturn(icmp, ports) ==
    IF isReachable(icmp, ports)
    THEN (IF icmp THEN "c1_lock" ELSE "appendLock")
    ELSE "release"
AfterProbeEnrichAll(icmp, ports) ==
    IF isReachable(icmp, ports) THEN "c1_lock" ELSE "progLock"
AfterProbe(icmp, ports) ==
    IF isReachable(icmp, ports)
    THEN (IF icmp THEN "c1_lock" ELSE "appendLock")
    ELSE "progLock"

\* pingIP, the TCP sweep when enabled, and the branch on isReachable
Probe(t) ==
    /\ pc[t] = "probe"
    /\ \E icmp \in BOOLEAN, open \in OpenPortSets :
        LET ports == IF UseTCP THEN getOpenPorts(open) ELSE <<>>
        IN /\ icmpReachable' = [icmpReachable EXCEPT ![t] = icmp]
           /\ openPorts' = [openPorts EXCEPT ![t] = ports]
           /\ foundVia' = [foundVia EXCEPT ![t] = FoundVia(icmp, ports)]
           /\ pc' = [pc EXCEPT ![t] = AfterProbe(icmp, ports)]
    /\ scanFrame /\ restFrame
    /\ UNCHANGED <<ip, mac, hostname>>
    /\ UNCHANGED <<semaphore, mu, wg, reachableHosts, completed, progressLog>>

\* GetMACAddress has returned; net.LookupAddr and TrimSuffix
LookupAddr(t) ==
    /\ pc[t] = "gm_ret"
    /\ \E name \in LookupNames :
        hostname' = [hostname EXCEPT ![t] = IF name # "" THEN TrimSuffixDot(name) ELSE ""]
    /\ pc' = [pc EXCEPT ![t] = "appendLock"]
    /\ callLog' = [callLog EXCEPT ![t] = <<>>]
    /\ scanFrame
    /\ UNCHANGED <<resolverVars, osTable, parses, tableAtReload, loadFailed, harnessVars,
                   mainVars, udpVars, pingVars, auxVars>>
    /\ UNCHANGED <<ip, icmpReachable, openPorts, foundVia, mac>>
    /\ UNCHANGED <<semaphore, mu, wg, reachableHosts, completed, progressLog>>

\* mu.Lock() before the append
AppendLock(t) ==
    /\ pc[t] = "appendLock"
    /\ mu = Unlocked
    /\ mu' = t
    /\ pc' = [pc EXCEPT ![t] = "append"]
    /\ scanFrame /\ localsFrame /\ restFrame
    /\ UNCHANGED <<semaphore, wg, reachableHosts, completed, progressLog>>

\* reachableHosts = append(reachableHosts, HostInfo{...}); mu.Unlock()
AppendHost(t) ==
    /\ pc[t] = "append"
    /\ reachableHosts' = Append(reachableHosts,
            [IP |-> ip[t], MAC |-> mac[t], Hostname |-> hostname[t],
             OpenPorts |-> openPorts[t], FoundVia |-> foundVia[t]])
    /\ mu' = Unlocked
    /\ pc' = [pc EXCEPT ![t] = "progLock"]
    /\ scanFrame /\ localsFrame /\ restFrame
    /\ UNCHANGED <<semaphore, wg, completed, progressLog>>

\* mu.Lock() before the progress update
ProgressLockSkipped(t) ==
    /\ pc[t] = "progLock"
    /\ pc' = [pc EXCEPT ![t] = "progress"]
    /\ scanFrame /\ localsFrame /\ restFrame
    /\ UNCHANGED <<semaphore, mu, wg, reachableHosts, completed, progressLog>>

ProgressLockReleasing(t) ==
    /\ pc[t] = "progLock"
    /\ mu = Unlocked
    /\ mu' = t
    /\ semaphore' = semaphore - 1
    /\ pc' = [pc EXCEPT ![t] = "progress"]
    /\ scanFrame /\ localsFrame /\ restFrame
    /\ UNCHANGED <<wg, reachableHosts, completed, progressLog>>

ProgressLock(t) ==
    /\ pc[t] = "progLock"
    /\ mu = Unlocked
    /\ mu' = t
    /\ pc' = [pc EXCEPT ![t] = "progress"]
    /\ scanFrame /\ localsFrame /\ restFrame
    /\ UNCHANGED <<semaphore, wg, reachableHosts, completed, progressLog>>

\* completed++; progressCallback(completed, total, len(reachableHosts)) is entered
Progress(t) ==
    /\ pc[t] = "progress"
    /\ completed' = completed + 1
    /\ progressLog' = Append(progressLog,
            [completed |-> completed + 1, total |-> Len(ips), found |-> Len(reachableHosts)])
    /\ pc' = [pc EXCEPT ![t] = "callback"]
    /\ scanFrame /\ localsFrame /\ restFrame
    /\ UNCHANGED <<semaphore, mu, wg, reachableHosts>>

\* the callback returns; mu.Unlock()
CallbackReturn(t) ==
    /\ pc[t] = "callback"
    /\ mu' = Unlocked
    /\ pc' = [pc EXCEPT ![t] = "release"]
    /\ scanFrame /\ localsFrame /\ restFrame
    /\ UNCHANGED <<semaphore, wg, reachableHosts, completed, progressLog>>

\* the deferred <-semaphore
Release(t) ==
    /\ pc[t] = "release"
    /\ semaphore' = semaphore - 1
    /\ pc' = [pc EXCEPT ![t] = "wgDone"]
    /\ scanFrame /\ localsFrame /\ restFrame
    /\ UNCHANGED <<mu, wg, reachableHosts, completed, progressLog>>

\* the deferred wg.Done()
WgDone(t) ==
    /\ pc[t] = "wgDone"
    /\ wg' = wg - 1
    /\ pc' = [pc EXCEPT ![t] = "done"]
    /\ scanFrame /\ localsFrame /\ restFrame
    /\ UNCHANGED <<semaphore, mu, reachableHosts, completed, progressLog>>

(***************************************************************************)
(* Resolver.GetMACAddress, step by step                                    *)
(*                                                                         *)
(* The four cache lookups of GetMACAddress are numbered k = 1..4 and the   *)
(* three loader calls k = 1..3 (1: ensureARPTableLoaded, 2: the first      *)
(* reloadARPTable, 3: the reloadARPTable after sendARPRequest).            *)
(***************************************************************************)
CacheLockPc == <<"c1_lock", "c2_lock", "c3_lock", "c4_lock">>
CacheReadPc == <<"c1_read", "c2_read", "c3_read", "c4_read">>
LoadLockPc == <<"ld1_lock", "ld2_lock", "ld3_lock">>
LoadBodyPc == <<"ld1_body", "ld2_body", "ld3_body">>

\* the positions whose next step reads or writes r.cache or r.arpLoaded
SharedAccessPcs ==
    {CacheReadPc[k] : k \in 1..4} \cup {LoadBodyPc[k] : k \in 1..3} \cup {"lw_write", "en_check"}

\* the positions whose next step is r.mutex.Lock()
MutexLockPcs ==
    {CacheLockPc[k] : k \in 1..4} \cup {LoadLockPc[k] : k \in 1..3} \cup {"lw_lock", "en_lock"}

\* the positions whose next step is mu.Lock()
MuLockPcs == {"appendLock", "progLock"}

\* the positions inside GetMACAddress, and the one before net.LookupAddr
EnrichmentPcs == MutexLockPcs \cup SharedAccessPcs \cup {"local", "arp", "gm_ret"}

callerFrame == UNCHANGED <<scanVars, ip, icmpReachable, openPorts, foundVia, hostname,
                           osTable, harnessVars, mainVars, udpVars, pingVars, auxVars>>

\* r.loadARPTableFunc(r) when a loader is set, from ensureARPTableLoaded
\* (k = 1) or reloadARPTable (k = 2, 3): where the caller goes next
CallLoader(k) == IF loadARPTableFunc # "nil" THEN LoadLockPc[k] ELSE CacheLockPc[k + 1]

\* getMACFromCache: r.mutex.Lock()
getMACFromCache_LockSkipped(t, k) ==
    /\ pc[t] = CacheLockPc[k]
    /\ pc' = [pc EXCEPT ![t] = CacheReadPc[k]]
    /\ callerFrame
    /\ UNCHANGED <<mac, resolverVars, parses, tableAtReload, loadFailed, callLog>>

getMACFromCache_Lock(t, k) ==
    /\ pc[t] = CacheLockPc[k]
    /\ mutex = Unlocked
    /\ mutex' = t
    /\ pc' = [pc EXCEPT ![t] = CacheReadPc[k]]
    /\ callerFrame
    /\ UNCHANGED <<mac, cache, arpLoaded, loadARPTableFunc, parses, tableAtReload, loadFailed, callLog>>

\* where GetMACAddress goes after lookup k returned m
AfterLookupIgnoringHit(k, m) ==
    IF k = 4 THEN "gm_ret"
    ELSE IF k = 1 THEN "local"
    ELSE IF k = 2 THEN CallLoader(2)
    ELSE "arp"

AfterLookup(k, m) ==
    IF m # "" \/ k = 4 THEN "gm_ret"
    ELSE IF k = 1 THEN "local"
    ELSE IF k = 2 THEN CallLoader(2)
    ELSE "arp"

\* getMACFromCache: the map read and the deferred Unlock; GetMACAddress
\* returns on a hit (and after the last lookup), else goes on
getMACFromCache_ReadKeepLock(t, k) ==
    /\ pc[t] = CacheReadPc[k]
    /\ LET m == CacheLookup(cache, ip[t])
       IN /\ mac' = [mac EXCEPT ![t] = m]
          /\ pc' = [pc EXCEPT ![t] = AfterLookup(k, m)]
          /\ mutex' = IF m # "" THEN mutex ELSE Unlocked
          /\ callLog' = [callLog EXCEPT ![t] = Append(@, IF m # "" THEN "hit" ELSE "miss")]
    /\ callerFrame
    /\ UNCHANGED <<cache, arpLoaded, loadARPTableFunc, parses, tableAtReload, loadFailed>>

getMACFromCache_Read(t, k) ==
    /\ pc[t] = CacheReadPc[k]
    /\ LET m == CacheLookup(cache, ip[t])
       IN /\ mac' = [mac EXCEPT ![t] = m]
          /\ pc' = [pc EXCEPT ![t] = AfterLookup(k, m)]
          /\ callLog' = [callLog EXCEPT ![t] = Append(@, IF m # "" THEN "hit" ELSE "miss")]
    /\ mutex' = Unlocked
    /\ callerFrame
    /\ UNCHANGED <<cache, arpLoaded, loadARPTableFunc, parses, tableAtReload, loadFailed>>

\* getMACFromLocalInterfaces, outside the lock
LocalInterfaces(t) ==
    /\ pc[t] = "local"
    /\ LET m == getMACFromLocalInterfaces(ip[t])
       IN /\ mac' = [mac EXCEPT ![t] = m]
          /\ pc' = [pc EXCEPT ![t] = IF m # "" THEN "lw_lock" ELSE "en_lock"]
          /\ callLog' = [callLog EXCEPT ![t] =
                            Append(@, IF m # "" THEN "local:hit" ELSE "local:miss")]
    /\ callerFrame
    /\ UNCHANGED <<resolverVars, parses, tableAtReload, loadFailed>>

\* r.mutex.Lock() before the write of a local interface's address
LocalWrite_Lock(t) ==
    /\ pc[t] = "lw_lock"
    /\ mutex = Unlocked
    /\ mutex' = t
    /\ pc' = [pc EXCEPT ![t] = "lw_write"]
    /\ callerFrame
    /\ UNCHANGED <<mac, cache, arpLoaded, loadARPTableFunc, parses, tableAtReload, loadFailed, callLog>>

\* r.cache[ip] = mac; r.mutex.Unlock(); return mac
LocalWriteRaw(t) ==
    /\ pc[t] = "lw_write"
    /\ cache' = [i \in DOMAIN cache \cup {ip[t]} |->
                    IF i = ip[t] THEN LocalHardwareAddr ELSE cache[i]]
    /\ mutex' = Unlocked
    /\ pc' = [pc EXCEPT ![t] = "gm_ret"]
    /\ callerFrame
    /\ UNCHANGED <<mac, arpLoaded, loadARPTableFunc, parses, tableAtReload, loadFailed, callLog>>

LocalWriteKeepLock(t) ==
    /\ pc[t] = "lw_write"
    /\ cache' = [i \in DOMAIN cache \cup {ip[t]} |-> IF i = ip[t] THEN mac[t] ELSE cache[i]]
    /\ pc' = [pc EXCEPT ![t] = "gm_ret"]
    /\ callerFrame
    /\ UNCHANGED <<mac, mutex, arpLoaded, loadARPTableFunc, parses, tableAtReload, loadFailed, callLog>>

LocalWrite(t) ==
    /\ pc[t] = "lw_write"
    /\ cache' = [i \in DOMAIN cache \cup {ip[t]} |-> IF i = ip[t] THEN mac[t] ELSE cache[i]]
    /\ mutex' = Unlocked
    /\ pc' = [pc EXCEPT ![t] = "gm_ret"]
    /\ callerFrame
    /\ UNCHANGED <<mac, arpLoaded, loadARPTableFunc, parses, tableAtReload, loadFailed, callLog>>

\* ensureARPTableLoaded: r.mutex.Lock()
ensureARPTableLoaded_Lock(t) ==
    /\ pc[t] = "en_lock"
    /\ mutex = Unlocked
    /\ mutex' = t
    /\ pc' = [pc EXCEPT ![t] = "en_check"]
    /\ callerFrame
    /\ UNCHANGED <<mac, cache, arpLoaded, loadARPTableFunc, parses, tableAtReload, loadFailed, callLog>>

\* ensureARPTableLoaded: the check of arpLoaded, Unlock, and the loader call
ensureARPTableLoaded_Check(t) ==
    /\ pc[t] = "en_check"
    /\ mutex' = Unlocked
    /\ pc' = [pc EXCEPT ![t] = IF arpLoaded THEN CacheLockPc[2] ELSE CallLoader(1)]
    /\ callerFrame
    /\ UNCHANGED <<mac, cache, arpLoaded, loadARPTableFunc, parses, tableAtReload, loadFailed, callLog>>

\* the loader: r.mutex.Lock()
Loader_Lock(t, k) ==
    /\ pc[t] = LoadLockPc[k]
    /\ mutex = Unlocked
    /\ mutex' = t
    /\ pc' = [pc EXCEPT ![t] = LoadBodyPc[k]]
    /\ callerFrame
    /\ UNCHANGED <<mac, cache, arpLoaded, loadARPTableFunc, parses, tableAtReload, loadFailed, callLog>>

\* the loader: the re-check of arpLoaded, the read of the table into the
\* cache, and the deferred Unlock
Loader_Body(t, k) ==
    /\ pc[t] = LoadBodyPc[k]
    /\ \E readable \in BOOLEAN :
        LET r == LoaderBody(loadARPTableFunc, cache, arpLoaded, osTable, readable)
        IN /\ cache' = r.cache
           /\ arpLoaded' = r.arpLoaded
           /\ parses' = parses + (IF r.parsed THEN 1 ELSE 0)
           /\ loadFailed' = [loadFailed EXCEPT ![t] = @ \/ r.failed]
    /\ callLog' = [callLog EXCEPT ![t] = Append(@, "load")]
    /\ tableAtReload' = [tableAtReload EXCEPT ![t] =
            IF k > 1 /\ arpLoaded THEN CacheLookup(osTable, ip[t]) ELSE @]
    /\ mutex' = Unlocked
    /\ pc' = [pc EXCEPT ![t] = CacheLockPc[k + 1]]
    /\ callerFrame
    /\ UNCHANGED <<mac, loadARPTableFunc>>

\* sendARPRequest(ip), then reloadARPTable
SendARPRequest(t) ==
    /\ pc[t] = "arp"
    /\ pc' = [pc EXCEPT ![t] = CallLoader(3)]
    /\ callLog' = [callLog EXCEPT ![t] = Append(@, "arp")]
    /\ callerFrame
    /\ UNCHANGED <<mac, resolverVars, parses, tableAtReload, loadFailed>>

(***************************************************************************)
(* The operating system                                                    *)
(***************************************************************************)
\* the kernel adds a line to its neighbour table, or completes an
\* incomplete (all-zero) one
NeighbourUpdate ==
    /\ \E i \in Neighbours : \E m \in RawMACs(i) :
        /\ IF i \in DOMAIN osTable THEN ~isValidMAC(osTable[i]) /\ isValidMAC(m) ELSE TRUE
        /\ osTable' = [j \in DOMAIN osTable \cup {i} |-> IF j = i THEN m ELSE osTable[j]]
    /\ UNCHANGED <<scanVars, taskVars, resolverVars, obsVars, harnessVars, mainVars, udpVars, pingVars, auxVars>>

(***************************************************************************)
(* Specifications                                                          *)
(***************************************************************************)
\* the steps of GetMACAddress, by any goroutine that is inside it
GetMACAddressStep ==
    \/ \E t \in Tasks, k \in 1..4 : getMACFromCache_Lock(t, k)
    \/ \E t \in Tasks, k \in 1..4 : getMACFromCache_Read(t, k)
    \/ \E t \in Tasks : LocalInterfaces(t)
    \/ \E t \in Tasks : LocalWrite_Lock(t)
    \/ \E t \in Tasks : LocalWrite(t)
    \/ \E t \in Tasks : ensureARPTableLoaded_Lock(t)
    \/ \E t \in Tasks : ensureARPTableLoaded_Check(t)
    \/ \E t \in Tasks, k \in 1..3 : Loader_Lock(t, k)
    \/ \E t \in Tasks, k \in 1..3 : Loader_Body(t, k)
    \/ \E t \in Tasks : SendARPRequest(t)

\* the steps of the goroutines of ScanSubnet outside GetMACAddress
ScanTaskStep ==
    \/ \E t \in Tasks : Acquire(t)
    \/ \E t \in Tasks : Probe(t)
    \/ \E t \in Tasks : LookupAddr(t)
    \/ \E t \in Tasks : AppendLock(t)
    \/ \E t \in Tasks : AppendHost(t)
    \/ \E t \in Tasks : ProgressLock(t)
    \/ \E t \in Tasks : Progress(t)
    \/ \E t \in Tasks : CallbackReturn(t)
    \/ \E t \in Tasks : Release(t)
    \/ \E t \in Tasks : WgDone(t)

Next ==
    \/ Spawn
    \/ WaitSortReturn
    \/ ScanTaskStep
    \/ GetMACAddressStep
    \/ NeighbourUpdate

\* one ScanSubnet call with the resolver of its scanner
Spec == Init /\ [][Next]_vars

\* the steps of the program alone, the neighbour table staying as it is
ProgramStep ==
    \/ Spawn
    \/ WaitSortReturn
    \/ ScanTaskStep
    \/ GetMACAddressStep

\* the scans FairSpec follows: on Linux, the neighbour table holding a line
\* for 192.168.1.9, of candidates among 192.168.1.9 (a neighbour) and
\* 192.168.1.100 (the scanning machine itself), with Concurrency >= 1
FairInit ==
    /\ Init
    /\ Concurrency >= 1
    /\ \A n \in 1..Len(ips) : ips[n] \in {IPa, IPc}
    /\ loadARPTableFunc = "linux"
    /\ IPa \in DOMAIN osTable /\ isValidMAC(osTable[IPa])

\* one ScanSubnet call under the Go scheduler, while the neighbour table does
\* not change: the main goroutine runs when it can, and while some started
\* goroutine can take a step, one of them does
FairSpec ==
    /\ FairInit
    /\ [][ProgramStep]_vars
    /\ WF_vars(Spawn \/ WaitSortReturn)
    /\ WF_vars(ScanTaskStep \/ GetMACAddressStep)

(***************************************************************************)
(* The scanner with UDP probing                                            *)
(*                                                                         *)
(* A later ScanSubnet probes in three steps, pingIP, the TCP sweep and the *)
(* UDP sweep, and hands the open ports of both sweeps on in one list; its  *)
(* HostInfo has no FoundVia, which stays empty here.  The rest of the      *)
(* goroutine is that of scanner.go.                                        *)
(***************************************************************************)
\* the ports getOpenUDPPorts probes, in probing order
udpProbePorts == <<53, 67, 68, 69, 123, 137, 138, 161, 500, 514>>

\* what a host may show: the TCP ports that accept a connection, and the UDP
\* ports that answer a probe
OpenTCPSets == {{}, {22, 53}}
UDPReplySets == {{}, {53, 123}}

\* getOpenUDPPorts: the probed ports that answered, in probing order
getOpenUDPPorts(replying) == SelectSeq(udpProbePorts, LAMBDA p : p \in replying)

\* if icmpReachable || len(tcpPorts) > 0
udpEligibleAlways(icmp, tcp) == TRUE
udpEligibleUnresponsive(icmp, tcp) == ~icmp /\ Len(tcp) = 0
udpEligible(icmp, tcp) == icmp \/ Len(tcp) > 0

udpFrame ==
    /\ scanFrame
    /\ UNCHANGED <<ip, foundVia, mac, hostname, UseUDP>>
    /\ UNCHANGED <<semaphore, mu, wg, reachableHosts, completed, progressLog>>
    /\ UNCHANGED <<resolverVars, osTable, obsVars, harnessVars, mainVars, pingVars, auxVars>>

\* s.pingIP(ip)
PingHost(t) ==
    /\ pc[t] = "probe"
    /\ \E icmp \in BOOLEAN : icmpReachable' = [icmpReachable EXCEPT ![t] = icmp]
    /\ pc' = [pc EXCEPT ![t] = "tcp"]
    /\ udpFrame
    /\ UNCHANGED <<openPorts, tcpPorts, udpPorts, udpSwept>>

\* if s.UseTCP { tcpPorts = s.getOpenPorts(ip) }
TCPSweep(t) ==
    /\ pc[t] = "tcp"
    /\ \E open \in OpenTCPSets :
          tcpPorts' = [tcpPorts EXCEPT ![t] = IF UseTCP THEN getOpenPorts(open) ELSE <<>>]
    /\ pc' = [pc EXCEPT ![t] = "udp"]
    /\ udpFrame
    /\ UNCHANGED <<icmpReachable, openPorts, udpPorts, udpSwept>>

\* if s.UseUDP { if icmpReachable || len(tcpPorts) > 0 { udpPorts = ... } }
UDPSweep(t) ==
    /\ pc[t] = "udp"
    /\ IF UseUDP /\ udpEligible(icmpReachable[t], tcpPorts[t])
       THEN /\ \E replying \in UDPReplySets :
                  udpPorts' = [udpPorts EXCEPT ![t] = getOpenUDPPorts(replying)]
            /\ udpSwept' = [udpSwept EXCEPT ![t] = TRUE]
       ELSE UNCHANGED <<udpPorts, udpSwept>>
    /\ pc' = [pc EXCEPT ![t] = "combine"]
    /\ udpFrame
    /\ UNCHANGED <<icmpReachable, openPorts, tcpPorts>>

\* the two appends to openPorts, and the branch on isReachable
CombinePorts(t) ==
    /\ pc[t] = "combine"
    /\ \E ports \in {tcpPorts[t] \o udpPorts[t]} :
          /\ openPorts' = [openPorts EXCEPT ![t] = ports]
          /\ pc' = [pc EXCEPT ![t] = AfterProbe(icmpReachable[t], ports)]
    /\ udpFrame
    /\ UNCHANGED <<icmpReachable, tcpPorts, udpPorts, udpSwept>>

\* the steps of the goroutines of this ScanSubnet outside GetMACAddress
UDPTaskStep ==
    \/ \E t \in Tasks : Acquire(t)
    \/ \E t \in Tasks : PingHost(t)
    \/ \E t \in Tasks : TCPSweep(t)
    \/ \E t \in Tasks : UDPSweep(t)
    \/ \E t \in Tasks : CombinePorts(t)
    \/ \E t \in Tasks : LookupAddr(t)
    \/ \E t \in Tasks : AppendLock(t)
    \/ \E t \in Tasks : AppendHost(t)
    \/ \E t \in Tasks : ProgressLock(t)
    \/ \E t \in Tasks : Progress(t)
    \/ \E t \in Tasks : CallbackReturn(t)
    \/ \E t \in Tasks : Release(t)
    \/ \E t \in Tasks : WgDone(t)

UDPNext ==
    \/ Spawn
    \/ WaitSortReturn
    \/ UDPTaskStep
    \/ GetMACAddressStep

\* the flags -tcp and -udp, on Linux, the neighbour table holding a line for
\* 192.168.1.9
UDPInit ==
    /\ InitScan
    /\ UseUDP \in BOOLEAN
    /\ loadARPTableFunc = "linux"
    /\ IPa \in DOMAIN osTable /\ isValidMAC(osTable[IPa])

\* one call of the ScanSubnet with UDP probing, the neighbour table staying
\* as it is
SpecUDP == UDPInit /\ [][UDPNext]_vars

(***************************************************************************)
(* Scanner.pingIP                                                          *)
(*                                                                         *)
(* Time is counted in ticks of 50 ms.  It passes only while the goroutine  *)
(* is blocked in WriteTo or ReadFrom, and a blocked call returns at its    *)
(* deadline at the latest; every other statement takes no time.            *)
(***************************************************************************)
\* who may send an ICMP packet to the raw socket: the target, or any other
\* host (the socket receives every ICMP packet that reaches the machine)
Senders == {"target", "other"}

\* peerIP.IP.Equal(dst.IP) && len(reply) > 0, reply being the 1500-byte buffer
accepts(peer) == peer = "target"

pingFrame ==
    UNCHANGED <<scanVars, taskVars, resolverVars, osTable, obsVars, harnessVars, mainVars,
                udpVars, auxVars>>

\* ResolveIPAddr, ListenPacket and Marshal, each returning false on an
\* error; then deadline := time.Now().Add(s.Timeout); conn.SetDeadline(deadline)
PingSetup ==
    /\ pingpc = "setup"
    /\ \E ok \in BOOLEAN :
          IF ok
          THEN /\ deadline' = now + Timeout
               /\ readDeadline' = now + Timeout
               /\ pingpc' = "write"
               /\ UNCHANGED pingResult
          ELSE /\ pingResult' = FALSE
               /\ pingpc' = "returned"
               /\ UNCHANGED <<deadline, readDeadline>>
    /\ UNCHANGED <<now, reads>>
    /\ pingFrame

\* conn.WriteTo(data, dst) returns, with an error or without
PingWrite ==
    /\ pingpc = "write"
    /\ \E ok \in BOOLEAN :
          IF ok
          THEN pingpc' = "loop" /\ UNCHANGED pingResult
          ELSE pingResult' = FALSE /\ pingpc' = "returned"
    /\ UNCHANGED <<now, deadline, readDeadline, reads>>
    /\ pingFrame

\* for time.Now().Before(deadline) { conn.SetReadDeadline(now + 100 ms) ...;
\* return false after the loop
PingLoop ==
    /\ pingpc = "loop"
    /\ IF now < deadline
       THEN /\ readDeadline' = now + ReadWindow
            /\ pingpc' = "read"
            /\ UNCHANGED pingResult
       ELSE /\ pingResult' = FALSE
            /\ pingpc' = "returned"
            /\ UNCHANGED readDeadline
    /\ UNCHANGED <<now, deadline, reads>>
    /\ pingFrame

\* conn.ReadFrom(reply) returns a packet: return true when it is accepted,
\* else the next iteration
PingReadPacket ==
    /\ pingpc = "read"
    /\ now < readDeadline
    /\ Len(reads) < MaxReads
    /\ \E peer \in Senders :
          /\ reads' = Append(reads, [peer |-> peer, at |-> now])
          /\ IF accepts(peer)
             THEN pingResult' = TRUE /\ pingpc' = "returned"
             ELSE pingpc' = "loop" /\ UNCHANGED pingResult
    /\ UNCHANGED <<now, deadline, readDeadline>>
    /\ pingFrame

\* conn.ReadFrom(reply) returns an error, at the read deadline (a timeout)
\* or before it (any other error): continue
PingReadError ==
    /\ pingpc = "read"
    /\ pingpc' = "loop"
    /\ UNCHANGED <<now, deadline, readDeadline, pingResult, reads>>
    /\ pingFrame

\* time passes while WriteTo or ReadFrom blocks
Tick ==
    /\ \/ pingpc = "write" /\ now < deadline
       \/ pingpc = "read" /\ now < readDeadline
    /\ now' = now + 1
    /\ UNCHANGED <<deadline, readDeadline, pingpc, pingResult, reads>>
    /\ pingFrame

PingNext ==
    \/ PingSetup
    \/ PingWrite
    \/ PingLoop
    \/ PingReadPacket
    \/ PingReadError
    \/ Tick

\* pingIP is called; no scan is running
PingInit ==
    /\ Concurrency = DefaultConcurrency
    /\ UseTCP = FALSE
    /\ UseUDP = FALSE
    /\ ips = <<>>
    /\ semaphore = 0
    /\ mu = Unlocked
    /\ wg = 0
    /\ reachableHosts = <<>>
    /\ completed = 0
    /\ mainpc = "ping"
    /\ started = 0
    /\ result = <<>>
    /\ progressLog = <<>>
    /\ InitTasks(0, "unborn")
    /\ InitResolverOver({EmptyCache})
    /\ loadARPTableFunc = "nil"
    /\ subnet = <<>>
    /\ expandErr = FALSE
    /\ now = 0
    /\ deadline = 0
    /\ readDeadline = 0
    /\ pingpc = "setup"
    /\ pingResult = FALSE
    /\ reads = <<>>
    /\ AuxIdle

\* one call of pingIP
SpecPing == PingInit /\ [][PingNext]_vars

(***************************************************************************)
(* main                                                                    *)
(***************************************************************************)
\* main up to the call of ScanSubnet: the usage exit for an empty argument,
\* GetIPsFromSubnet, and the exit on its error
MainParse ==
    /\ mainpc = "main"
    /\ IF subnet = <<>>
       THEN mainpc' = "exit" /\ UNCHANGED <<ips, expandErr>>
       ELSE LET r == GetIPsFromSubnet(subnet)
            IN /\ ips' = r.ips
               /\ expandErr' = r.err
               /\ mainpc' = IF r.err THEN "exit" ELSE "expanded"
    /\ UNCHANGED <<Concurrency, UseTCP, semaphore, mu, wg, reachableHosts, completed,
                   started, result, progressLog, subnet>>
    /\ UNCHANGED <<taskVars, resolverVars, osTable, obsVars, harnessVars, udpVars, pingVars, auxVars>>

\* scanner.ScanSubnet(ips, ui.ShowProgress) is entered: its locals, and one
\* goroutine to come per candidate
MainScan ==
    /\ mainpc = "expanded"
    /\ Len(ips) <= MaxIPs
    /\ mainpc' = "loop"
    /\ pc' = [t \in 1..Len(ips) |-> "unborn"]
    /\ ip' = [t \in 1..Len(ips) |-> <<>>]
    /\ icmpReachable' = [t \in 1..Len(ips) |-> FALSE]
    /\ openPorts' = [t \in 1..Len(ips) |-> <<>>]
    /\ foundVia' = [t \in 1..Len(ips) |-> ""]
    /\ mac' = [t \in 1..Len(ips) |-> ""]
    /\ hostname' = [t \in 1..Len(ips) |-> ""]
    /\ tableAtReload' = [t \in 1..Len(ips) |-> ""]
    /\ loadFailed' = [t \in 1..Len(ips) |-> FALSE]
    /\ callLog' = [t \in 1..Len(ips) |-> <<>>]
    /\ calls' = [t \in 1..Len(ips) |-> 0]
    /\ loadedAtCall' = [t \in 1..Len(ips) |-> FALSE]
    /\ prevCall' = [t \in 1..Len(ips) |-> NoCall]
    /\ tcpPorts' = [t \in 1..Len(ips) |-> <<>>]
    /\ udpPorts' = [t \in 1..Len(ips) |-> <<>>]
    /\ udpSwept' = [t \in 1..Len(ips) |-> FALSE]
    /\ UNCHANGED <<Concurrency, UseTCP, ips, semaphore, mu, wg, reachableHosts, completed,
                   started, result, progressLog>>
    /\ UNCHANGED <<resolverVars, osTable, parses, mainVars, UseUDP, pingVars, auxVars>>

\* NewScanner with its resolver, the flags, and the argument; the program
\* runs on Linux, the neighbour table holding a line for 192.168.1.9
MainInit ==
    /\ Concurrency = DefaultConcurrency
    /\ UseTCP \in BOOLEAN
    /\ subnet \in ValidSubnets \cup MalformedSubnets \cup {<<>>}
    /\ expandErr = FALSE
    /\ ips = <<>>
    /\ semaphore = 0
    /\ mu = Unlocked
    /\ wg = 0
    /\ reachableHosts = <<>>
    /\ completed = 0
    /\ mainpc = "main"
    /\ started = 0
    /\ result = <<>>
    /\ progressLog = <<>>
    /\ InitTasks(0, "unborn")
    /\ InitResolver
    /\ loadARPTableFunc = "linux"
    /\ IPa \in DOMAIN osTable /\ isValidMAC(osTable[IPa])
    /\ UseUDP = FALSE
    /\ PingIdle

MainNext ==
    \/ MainParse
    \/ MainScan
    \/ Spawn
    \/ WaitSortReturn
    \/ ScanTaskStep
    \/ GetMACAddressStep

\* the program from main on, the neighbour table staying as it is
SpecMain == MainInit /\ [][MainNext]_vars

(***************************************************************************)
(* One resolver called by several goroutines                               *)
(***************************************************************************)
\* the calls made so far
TotalCalls == Cardinality({c \in Tasks \X (1..MaxCalls) : c[2] <= calls[c[1]]})

\* a goroutine calls r.GetMACAddress(i)
Call(t) ==
    /\ pc[t] = "idle"
    /\ TotalCalls < MaxCalls
    /\ \E i \in Candidates : ip' = [ip EXCEPT ![t] = i]
    /\ calls' = [calls EXCEPT ![t] = @ + 1]
    /\ mac' = [mac EXCEPT ![t] = ""]
    /\ tableAtReload' = [tableAtReload EXCEPT ![t] = ""]
    /\ loadFailed' = [loadFailed EXCEPT ![t] = FALSE]
    /\ callLog' = [callLog EXCEPT ![t] = <<>>]
    /\ loadedAtCall' = [loadedAtCall EXCEPT ![t] = arpLoaded]
    /\ pc' = [pc EXCEPT ![t] = "c1_lock"]
    /\ UNCHANGED <<scanVars, icmpReachable, openPorts, foundVia, hostname>>
    /\ UNCHANGED <<resolverVars, osTable, parses, prevCall, mainVars, udpVars, pingVars, auxVars>>

\* GetMACAddress has returned mac[t] to its caller
CallerReturn(t) ==
    /\ pc[t] = "gm_ret"
    /\ prevCall' = [prevCall EXCEPT ![t] =
            [ip |-> ip[t], mac |-> mac[t], loaded |-> loadedAtCall[t], changed |-> FALSE,
             valid |-> TRUE]]
    /\ pc' = [pc EXCEPT ![t] = "idle"]
    /\ loadFailed' = [loadFailed EXCEPT ![t] = FALSE]
    /\ callLog' = [callLog EXCEPT ![t] = <<>>]
    /\ UNCHANGED <<scanVars, ip, icmpReachable, openPorts, foundVia, mac, hostname>>
    /\ UNCHANGED <<resolverVars, osTable, parses, tableAtReload, calls, loadedAtCall,
                   mainVars, udpVars, pingVars, auxVars>>

\* the kernel adds a line to its neighbour table, or completes an incomplete
\* one, while callers are at work
TopologyChange ==
    /\ \E i \in ResolverNeighbours : \E m \in RawMACs(i) :
        /\ IF i \in DOMAIN osTable THEN ~isValidMAC(osTable[i]) /\ isValidMAC(m) ELSE TRUE
        /\ osTable' = [j \in DOMAIN osTable \cup {i} |-> IF j = i THEN m ELSE osTable[j]]
    /\ prevCall' = [t \in Tasks |-> [prevCall[t] EXCEPT !.changed = prevCall[t].valid]]
    /\ UNCHANGED <<scanVars, taskVars, resolverVars, obsVars, calls, loadedAtCall, mainVars, udpVars, pingVars, auxVars>>

\* NewResolver, and NumCallers goroutines that have not called yet; no scan
\* is running
ResolverInit ==
    /\ Concurrency = 0
    /\ UseTCP = FALSE
    /\ ips = <<>>
    /\ semaphore = 0
    /\ mu = Unlocked
    /\ wg = 0
    /\ reachableHosts = <<>>
    /\ completed = 0
    /\ mainpc = "resolver"
    /\ started = 0
    /\ result = <<>>
    /\ progressLog = <<>>
    /\ InitTasks(NumCallers, "idle")
    /\ InitResolverOver(OSTablesOver(ResolverNeighbours))
    /\ subnet = <<>>
    /\ expandErr = FALSE
    /\ UseUDP = FALSE
    /\ PingIdle

ResolverNext ==
    \/ \E t \in Tasks : Call(t)
    \/ \E t \in Tasks : CallerReturn(t)
    \/ GetMACAddressStep
    \/ TopologyChange

\* concurrent and repeated GetMACAddress calls on one resolver
SpecResolver == ResolverInit /\ [][ResolverNext]_vars

\* the steps of GetMACAddress by goroutine t
GetMACAddressOf(t) ==
    \/ \E k \in 1..4 : getMACFromCache_Lock(t, k)
    \/ \E k \in 1..4 : getMACFromCache_Read(t, k)
    \/ LocalInterfaces(t)
    \/ LocalWrite_Lock(t)
    \/ LocalWrite(t)
    \/ ensureARPTableLoaded_Lock(t)
    \/ ensureARPTableLoaded_Check(t)
    \/ \E k \in 1..3 : Loader_Lock(t, k)
    \/ \E k \in 1..3 : Loader_Body(t, k)
    \/ SendARPRequest(t)

\* the callers and the resolver alone, the neighbour table staying as it is
ResolverStep ==
    \/ \E t \in Tasks : Call(t)
    \/ \E t \in Tasks : CallerReturn(t)
    \/ GetMACAddressStep

\* the resolvers FairSpecResolver follows: on Linux, the neighbour table
\* without lines
FairResolverInit ==
    /\ ResolverInit
    /\ loadARPTableFunc = "linux"
    /\ osTable = EmptyCache

\* the same under the Go scheduler: a goroutine that is inside GetMACAddress
\* and can take a step eventually takes one
FairSpecResolver ==
    /\ FairResolverInit
    /\ [][ResolverStep]_vars
    /\ \A t \in 1..NumCallers : WF_vars(GetMACAddressOf(t))

(***************************************************************************)
(* The loop of GetIPsFromSubnet, one iteration at a time                   *)
(*                                                                         *)
(* for ip := ipNet.IP.Mask(ipNet.Mask); ipNet.Contains(ip); incrementIP(ip)*)
(* is followed from its first iteration. A network of up to 2^32 addresses *)
(* is not walked address by address: single iterations are followed for    *)
(* the first and the last NearEnds addresses of the network, and the       *)
(* iterations between are taken in one step (EnumerateMiddle), which is    *)
(* the composition of the iterations it stands for.                        *)
(***************************************************************************)
\* the scanner and the resolver at rest: no scan, no call, no pingIP
BaseIdle ==
    /\ Concurrency = DefaultConcurrency
    /\ UseTCP = FALSE
    /\ UseUDP = FALSE
    /\ ips = <<>>
    /\ semaphore = 0
    /\ mu = Unlocked
    /\ wg = 0
    /\ reachableHosts = <<>>
    /\ completed = 0
    /\ started = 0
    /\ result = <<>>
    /\ progressLog = <<>>
    /\ InitTasks(0, "unborn")
    /\ InitResolverOver({EmptyCache})
    /\ loadARPTableFunc = "nil"
    /\ subnet = <<>>
    /\ expandErr = FALSE
    /\ now = 0
    /\ deadline = 0
    /\ readDeadline = 0
    /\ pingpc = "idle"
    /\ pingResult = FALSE
    /\ reads = <<>>

\* the last address of a network: every host bit set
LastAddress(net, ones) == [j \in 1..4 |-> net[j] + Pow2(8 - MaskBits(ones, j)) - 1]

\* b is one of the first or of the last NearEnds addresses of the network
NearFirst(net, b) ==
    /\ \A j \in 1..3 : b[j] = net[j]
    /\ b[4] - net[4] < NearEnds
NearLast(net, ones, b) ==
    /\ \A j \in 1..3 : b[j] = LastAddress(net, ones)[j]
    /\ LastAddress(net, ones)[4] - b[4] < NearEnds

\* the addresses the -subnet argument is built around, and the networks of
\* every prefix length around them, as ParseCIDR returns them
EnumBases == {<<0, 0, 0, 0>>, <<10, 20, 30, 40>>, <<192, 168, 1, 9>>, <<255, 255, 255, 255>>}
EnumNetworks == {[IP |-> MaskIP(a, n), ones |-> n] : a \in EnumBases, n \in 0..32}

\* ParseCIDR has succeeded and the loop variable holds the masked address
EnumInit ==
    /\ BaseIdle
    /\ mainpc = "enumerate"
    /\ enumpc = "loop"
    /\ ipNet \in EnumNetworks
    /\ enumIP = MaskIP(ipNet.IP, ipNet.ones)
    /\ lastAppended = <<>>
    /\ SweepIdle
    /\ VendorIdle

enumFrame == UNCHANGED <<baseVars, ipNet, sweepVars, vendorVars>>

\* one iteration: ipNet.Contains(ip) holds, ips = append(ips, ip.String()),
\* incrementIP(ip)
EnumerateOne ==
    /\ enumpc = "loop"
    /\ Contains(ipNet.IP, ipNet.ones, enumIP)
    /\ NearFirst(ipNet.IP, enumIP) \/ NearLast(ipNet.IP, ipNet.ones, enumIP)
    /\ lastAppended' = IPString(enumIP)
    /\ enumIP' = incrementIP(enumIP)
    /\ UNCHANGED enumpc
    /\ enumFrame

\* the iterations from an address after the first NearEnds ones up to the
\* last address but NearEnds: each appends its address and adds one to it
\* without leaving the network
EnumerateMiddle ==
    /\ enumpc = "loop"
    /\ Contains(ipNet.IP, ipNet.ones, enumIP)
    /\ ~NearFirst(ipNet.IP, enumIP) /\ ~NearLast(ipNet.IP, ipNet.ones, enumIP)
    /\ LET last == LastAddress(ipNet.IP, ipNet.ones)
       IN /\ enumIP' = [last EXCEPT ![4] = @ - (NearEnds - 1)]
          /\ lastAppended' = IPString([last EXCEPT ![4] = @ - NearEnds])
    /\ UNCHANGED enumpc
    /\ enumFrame

\* ipNet.Contains(ip) is false: the loop ends, the list is trimmed and returned
EnumerateEnd ==
    /\ enumpc = "loop"
    /\ ~Contains(ipNet.IP, ipNet.ones, enumIP)
    /\ enumpc' = "returned"
    /\ UNCHANGED <<enumIP, lastAppended>>
    /\ enumFrame

EnumNext ==
    \/ EnumerateOne
    \/ EnumerateMiddle
    \/ EnumerateEnd

\* one GetIPsFromSubnet call on a well-formed argument; the loop is a
\* sequence of statements of one goroutine, so a step that can be taken is
\* taken
FairSpecEnum == EnumInit /\ [][EnumNext]_vars /\ WF_vars(EnumNext)

(***************************************************************************)
(* getOpenUDPPorts, one port at a time                                     *)
(*                                                                         *)
(* For every port of udpPorts: DialUDP, the probe (written again once when *)
(* the write fails), ReadFrom under a read deadline of Timeout, Close, and *)
(* the append.  Time passes only while ReadFrom blocks.  What the socket   *)
(* delivers does not depend on the writes: a datagram of the remote port   *)
(* (of any length, 0 included), an error (ICMP port unreachable), or       *)
(* nothing until the deadline.                                             *)
(***************************************************************************)
\* the lengths ReadFrom may return for a datagram: empty, one byte, a full
\* buffer
ReplySizes == {0, 1, 1500}

\* if err == nil && n > 0
marksOpenOnAnyRead(n, err) == ~err
marksOpen(n, err) == ~err /\ n > 0

sweepFrame == UNCHANGED <<baseVars, enumVars, vendorVars>>

\* getOpenUDPPorts is called
SweepInit ==
    /\ BaseIdle
    /\ mainpc = "udpsweep"
    /\ EnumIdle
    /\ VendorIdle
    /\ sweeppc = "dial"
    /\ portIdx = 1
    /\ openUDP = <<>>
    /\ writes = <<>>
    /\ waited = 0
    /\ lastRead = NoRead

\* the position after the body of the loop for the port at hand
NextPort == IF portIdx = Len(udpProbePorts) THEN "returned" ELSE "dial"

\* net.DialUDP; on an error the port is skipped
UDPDial ==
    /\ sweeppc = "dial"
    /\ writes' = <<>>
    /\ waited' = 0
    /\ lastRead' = NoRead
    /\ \E ok \in BOOLEAN :
          IF ok THEN sweeppc' = "write" /\ UNCHANGED portIdx
          ELSE sweeppc' = NextPort /\ portIdx' = portIdx + 1
    /\ UNCHANGED openUDP
    /\ sweepFrame

\* conn.Write(probe); SetReadDeadline when it succeeded
UDPWrite ==
    /\ sweeppc = "write"
    /\ \E ok \in BOOLEAN :
          /\ writes' = Append(writes, ok)
          /\ sweeppc' = IF ok THEN "read" ELSE "retry"
    /\ UNCHANGED <<portIdx, openUDP, waited, lastRead>>
    /\ sweepFrame

\* the second conn.Write, its result dropped; SetReadDeadline
UDPRetry ==
    /\ sweeppc = "retry"
    /\ \E ok \in BOOLEAN : writes' = Append(writes, ok)
    /\ sweeppc' = "read"
    /\ UNCHANGED <<portIdx, openUDP, waited, lastRead>>
    /\ sweepFrame

\* ReadFrom blocks
UDPWait ==
    /\ sweeppc = "read"
    /\ waited < Timeout
    /\ waited' = waited + 1
    /\ UNCHANGED <<sweeppc, portIdx, openUDP, writes, lastRead>>
    /\ sweepFrame

\* ReadFrom returns a datagram before the read deadline; Close; the append
UDPReadReply ==
    /\ sweeppc = "read"
    /\ waited < Timeout
    /\ \E n \in ReplySizes :
          /\ lastRead' = [n |-> n, err |-> FALSE, done |-> TRUE]
          /\ openUDP' = IF marksOpen(n, FALSE)
                         THEN Append(openUDP, udpProbePorts[portIdx])
                         ELSE openUDP
    /\ sweeppc' = NextPort
    /\ portIdx' = portIdx + 1
    /\ UNCHANGED <<writes, waited>>
    /\ sweepFrame

\* ReadFrom returns an error: the timeout at the read deadline, or another
\* error before it; Close; no append
UDPReadError ==
    /\ sweeppc = "read"
    /\ lastRead' = [n |-> 0, err |-> TRUE, done |-> TRUE]
    /\ openUDP' = IF marksOpen(0, TRUE)
                   THEN Append(openUDP, udpProbePorts[portIdx])
                   ELSE openUDP
    /\ sweeppc' = NextPort
    /\ portIdx' = portIdx + 1
    /\ UNCHANGED <<writes, waited>>
    /\ sweepFrame

SweepNext ==
    \/ UDPDial
    \/ UDPWrite
    \/ UDPRetry
    \/ UDPWait
    \/ UDPReadReply
    \/ UDPReadError

\* one call of getOpenUDPPorts
SpecSweep == SweepInit /\ [][SweepNext]_vars

(***************************************************************************)
(* The vendor lookup                                                       *)
(*                                                                         *)
(* main calls updateOUIFile once and, after the scan, ShowResults calls    *)
(* mac2manufacturer for the MAC of every host record.  MAC strings are     *)
(* sequences of characters here, as the lookup takes them apart.           *)
(***************************************************************************)
\* strings.ToUpper, character by character
UpperChar(c) ==
    CASE c = "a" -> "A" [] c = "b" -> "B" [] c = "c" -> "C"
      [] c = "d" -> "D" [] c = "e" -> "E" [] c = "f" -> "F"
      [] OTHER -> c

\* strings.ToUpper(strings.ReplaceAll(mac, ":", ""))
NormalizeMAC(m) ==
    CHOOSE r \in {[i \in 1..Len(x) |-> UpperChar(x[i])] :
                    x \in {SelectSeq(m, LAMBDA c : c # ":")}} : TRUE

\* the MAC strings ShowResults may find in a host record: the empty MAC of a
\* host found without ICMP or without a neighbour entry, the neighbour's
\* address as the loader stores it and in lower case, the local interface's
\* address, and an address of a second known vendor
LookupMACs ==
    {<<>>,
     <<"A", "A", ":", "B", "B", ":", "C", "C", ":", "0", "0", ":", "0", "0", ":", "0", "9">>,
     <<"a", "a", ":", "b", "b", ":", "c", "c", ":", "0", "0", ":", "0", "0", ":", "0", "9">>,
     <<"D", "E", ":", "A", "D", ":", "B", "E", ":", "E", "F", ":", "0", "0", ":", "0", "1">>,
     <<"0", "0", ":", "1", "A", ":", "2", "B", ":", "3", "C", ":", "4", "D", ":", "5", "E">>}

\* two OUI prefixes of the vendor database with their vendors, and the
\* files oui.txt may be: the vendor its "(base 16)" lines give per prefix
OUIa == <<"A", "A", "B", "B", "C", "C">>
OUIb == <<"0", "0", "1", "A", "2", "B">>
VendorOf(k) == IF k = OUIa THEN "Acme Corp" ELSE "Ayecom Technology"
OUIFiles == {[k \in D |-> VendorOf(k)] : D \in SUBSET {OUIa, OUIb}}

\* loadOUICache: the lines of the file, or an empty map when it cannot be
\* opened
loadOUICache(file) == IF file.exists THEN file.entries ELSE EmptyCache

\* mac2manufacturer after the cache is loaded
lookupVendor(c, m) ==
    LET macPrefix == NormalizeMAC(m)
    IN IF Len(macPrefix) < 6 THEN "Invalid MAC"
       ELSE IF SubSeq(macPrefix, 1, 6) \in DOMAIN c THEN c[SubSeq(macPrefix, 1, 6)]
       ELSE ""

vendorFrame == UNCHANGED <<baseVars, enumVars, sweepVars>>

\* main has parsed its flags; oui.txt is there or not
VendorInit ==
    /\ BaseIdle
    /\ mainpc = "vendor"
    /\ EnumIdle
    /\ SweepIdle
    /\ vendorpc = "update"
    /\ \E exists \in BOOLEAN, f \in OUIFiles :
          ouiFile = [exists |-> exists, entries |-> IF exists THEN f ELSE EmptyCache]
    /\ ouiCache = EmptyCache
    /\ loadOUICacheOnce = FALSE
    /\ ouiLoads = 0
    /\ lookups = 0
    /\ lastLookup = [mac |-> <<>>, vendor |-> ""]

\* updateOUIFile: nothing when the file exists, else the download, which
\* may fail
UpdateOUIFile ==
    /\ vendorpc = "update"
    /\ IF ouiFile.exists THEN UNCHANGED ouiFile
       ELSE \/ UNCHANGED ouiFile
            \/ \E f \in OUIFiles : ouiFile' = [exists |-> TRUE, entries |-> f]
    /\ vendorpc' = "show"
    /\ UNCHANGED <<ouiCache, loadOUICacheOnce, ouiLoads, lookups, lastLookup>>
    /\ vendorFrame

\* mac2manufacturer(m): loadOUICacheOnce.Do(loadOUICache), then the lookup
Mac2Manufacturer(m) ==
    /\ vendorpc = "show"
    /\ lookups < MaxLookups
    /\ \E c \in {IF loadOUICacheOnce THEN ouiCache ELSE loadOUICache(ouiFile)} :
          /\ ouiCache' = c
          /\ lastLookup' = [mac |-> m, vendor |-> lookupVendor(c, m)]
    /\ ouiLoads' = IF loadOUICacheOnce THEN ouiLoads ELSE ouiLoads + 1
    /\ loadOUICacheOnce' = TRUE
    /\ lookups' = lookups + 1
    /\ UNCHANGED <<vendorpc, ouiFile>>
    /\ vendorFrame

\* oui.txt is written or removed by somebody else while the program runs
OUIFileChanges ==
    /\ vendorpc = "show"
    /\ \E exists \in BOOLEAN, f \in OUIFiles :
          /\ ouiFile' = [exists |-> exists, entries |-> IF exists THEN f ELSE EmptyCache]
          /\ ouiFile' # ouiFile
    /\ UNCHANGED <<vendorpc, ouiCache, loadOUICacheOnce, ouiLoads, lookups, lastLookup>>
    /\ vendorFrame

VendorNext ==
    \/ UpdateOUIFile
    \/ \E m \in LookupMACs : Mac2Manufacturer(m)
    \/ OUIFileChanges

\* the vendor lookups of one run of the program
SpecVendor == VendorInit /\ [][VendorNext]_vars

(***************************************************************************)
(* Properties of ScanSubnet                                                *)
(***************************************************************************)
\* the tasks between semaphore acquisition and semaphore release
InPipeline == {t \in Tasks : pc[t] \notin {"unborn", "acquire", "wgDone", "done"}}

\* the 32-bit big-endian value of the address of the i-th returned host
NumericIP(i) == BigEndianUint32(ParseIPv4(result.ReachableHosts[i].IP))

\* how often address a occurs among the returned hosts
Occurrences(a) ==
    Cardinality({i \in 1..Len(result.ReachableHosts) : result.ReachableHosts[i].IP = a})

\* C1: with Concurrency >= 1, the number of tasks between semaphore
\* acquisition and release never exceeds Concurrency
C1_ConcurrencyBound == Concurrency >= 1 => Cardinality(InPipeline) <= Concurrency

\* a task runs its pipeline while another one waits for the only slot
C1_Witness ==
    /\ Concurrency = 1
    /\ \E t, u \in Tasks : pc[t] = "probe" /\ pc[u] = "acquire"

\* C2: with Concurrency >= 1 ScanSubnet eventually returns, and what it
\* returns has Completed = Total = the number of candidates
C2_ScanCompletes ==
    /\ (Concurrency >= 1) ~> (mainpc = "returned")
    /\ [](mainpc = "returned" =>
            /\ result.Completed = result.Total
            /\ result.Total = Len(ips))

\* a scan of two candidates has returned, one host reachable and one not
C2_Witness ==
    /\ mainpc = "returned"
    /\ result.Total = 2
    /\ result.Completed = 2
    /\ Len(result.ReachableHosts) = 1

\* C3: the returned hosts are in ascending order of the 32-bit big-endian
\* value of their addresses
C3_SortedByNumericValue ==
    mainpc = "returned" =>
        \A i, j \in 1..Len(result.ReachableHosts) :
            i < j => ~Uint32Less(NumericIP(j), NumericIP(i))

\* 192.168.1.9 and 192.168.1.10 were both found, the first goroutine to
\* finish having appended its record already, and 192.168.1.9 is returned
\* first although "192.168.1.10" is the smaller string
C3_Witness ==
    /\ mainpc = "returned"
    /\ ips = <<IPa, IPb>>
    /\ StringLess(IPb, IPa)
    /\ progressLog[1].found = 1
    /\ \E t \in Tasks : ip[t] = IPa /\ pc[t] = "done" /\ icmpReachable[t]
    /\ Len(result.ReachableHosts) = 2
    /\ result.ReachableHosts[1].IP = IPa
    /\ result.ReachableHosts[2].IP = IPb

\* C4: a candidate is returned exactly once when its ICMP probe succeeded or
\* an open port was found, and not at all otherwise; nothing but candidates
\* is returned
C4_ReachableExactlyOnce ==
    mainpc = "returned" =>
        /\ \A t \in Tasks :
              Occurrences(ip[t]) =
                 (IF icmpReachable[t] \/ Len(openPorts[t]) > 0 THEN 1 ELSE 0)
        /\ \A i \in 1..Len(result.ReachableHosts) :
              \E n \in 1..Len(ips) : ips[n] = result.ReachableHosts[i].IP

\* a host found by its open ports alone is returned, one that answered
\* nothing is not
C4_Witness ==
    /\ mainpc = "returned"
    /\ \E t, u \in Tasks :
          /\ ~icmpReachable[t] /\ Len(openPorts[t]) > 0 /\ Occurrences(ip[t]) = 1
          /\ ~icmpReachable[u] /\ Len(openPorts[u]) = 0 /\ Occurrences(ip[u]) = 0

\* C5: callback invocations never overlap, the i-th one reports
\* completed = i with total = the number of candidates, and when the scan
\* returns every value 1..total has been reported
C5_ProgressSequential ==
    /\ Cardinality({t \in Tasks : pc[t] = "callback"}) <= 1
    /\ \A i \in 1..Len(progressLog) :
          progressLog[i].completed = i /\ progressLog[i].total = Len(ips)
    /\ mainpc = "returned" => Len(progressLog) = Len(ips)

\* the callback is running for the second time while the other task has
\* already finished
C5_Witness ==
    /\ Len(progressLog) = 2
    /\ \E t, u \in Tasks : pc[t] = "callback" /\ pc[u] = "done"

\* C6: at every invocation of the callback, found <= completed
C6_FoundAtMostCompleted ==
    \A i \in 1..Len(progressLog) : progressLog[i].found <= progressLog[i].completed

\* C7: no task holds mu and the resolver's mutex together, and none waits
\* for one of them while it holds the other
C7_NeverBothLocks ==
    \A t \in Tasks :
        /\ ~(mu = t /\ mutex = t)
        /\ pc[t] \in MutexLockPcs => mu # t
        /\ pc[t] \in MuLockPcs => mutex # t

\* one task is inside the resolver's critical section while another one
\* holds mu
C7_Witness ==
    \E t, u \in Tasks : t # u /\ mu = t /\ mutex = u /\ pc[u] \in SharedAccessPcs

(***************************************************************************)
(* Properties of the resolver                                              *)
(***************************************************************************)
\* C8: a goroutine whose next step reads or writes r.cache or r.arpLoaded
\* holds r.mutex
C8_SharedStateUnderMutex ==
    \A t \in Tasks : pc[t] \in SharedAccessPcs => mutex = t

\* one goroutine is about to write the cache under the mutex while another
\* one waits for the mutex to read it
C8_Witness ==
    \E t, u \in Tasks :
        /\ pc[t] = "lw_write" /\ mutex = t
        /\ pc[u] \in {CacheLockPc[k] : k \in 1..4}

C10_ReloadReturnsFreshEntry ==
    \A t \in Tasks :
        (/\ loadARPTableFunc = "linux"
         /\ pc[t] = "gm_ret"
         /\ tableAtReload[t] # ""
         /\ isValidMAC(tableAtReload[t]))
            => mac[t] = ToUpper(tableAtReload[t])
\* the positions inside the neighbour-table path of GetMACAddress: from
\* ensureARPTableLoaded on
ARPPathPcs ==
    {"en_lock", "en_check", "arp"} \cup {LoadLockPc[k] : k \in 1..3}
        \cup {LoadBodyPc[k] : k \in 1..3}
        \cup {CacheLockPc[k] : k \in 2..4} \cup {CacheReadPc[k] : k \in 2..4}

\* C11: every value in the cache is a non-empty MAC string, and no step
\* removes a key from the cache
C11_CacheOnlyGrows ==
    /\ [](\A i \in DOMAIN cache : cache[i] # "")
    /\ [][DOMAIN cache \subseteq DOMAIN cache']_vars

\* the cache holds the machine's own address, written by a call, and a
\* neighbour's, read from the table by a later load
C11_Witness ==
    /\ parses = 1
    /\ IPc \notin DOMAIN osTable
    /\ IPa \in DOMAIN cache /\ IPc \in DOMAIN cache
    /\ \E t \in Tasks : prevCall[t].valid /\ prevCall[t].ip = IPc /\ ~prevCall[t].loaded

C15_NoLoaderPlatform ==
    loadARPTableFunc = "nil" =>
        /\ arpLoaded
        /\ parses = 0
        /\ TotalCalls = 0 => cache = EmptyCache
        /\ DOMAIN cache \subseteq LocalAddrs
        /\ \A t \in Tasks :
              /\ pc[t] \notin {LoadLockPc[k] : k \in 1..3} \cup {LoadBodyPc[k] : k \in 1..3}
              /\ (pc[t] = "gm_ret" /\ ip[t] \notin LocalAddrs) => mac[t] = ""

\* without a loader, a call for a neighbour that the table has a valid line
\* for has gone through every lookup and returns ""
C15_Witness ==
    /\ loadARPTableFunc = "nil"
    /\ \E t \in Tasks :
          /\ pc[t] = "gm_ret"
          /\ ip[t] = IPa
          /\ IPa \in DOMAIN osTable /\ isValidMAC(osTable[IPa])
          /\ mac[t] = ""

\* C16: a call for an address of a local interface never enters the
\* neighbour-table path, writes the cache holding the mutex, and returns the
\* interface's hardware address in upper case, which the cache then holds
C16_LocalShortCircuit ==
    \A t \in Tasks :
        (ip[t] \in LocalAddrs /\ pc[t] # "idle") =>
            /\ pc[t] \notin ARPPathPcs
            /\ pc[t] = "lw_write" => mutex = t
            /\ pc[t] = "gm_ret" =>
                  /\ mac[t] = "DE:AD:BE:EF:00:01"
                  /\ ip[t] \in DOMAIN cache
                  /\ cache[ip[t]] = mac[t]

\* the first call on a resolver whose table is not loaded asked for the
\* machine's own address and has returned it, the table still not loaded
C16_Witness ==
    /\ ~arpLoaded
    /\ TotalCalls = 1
    /\ \E t \in Tasks :
          /\ pc[t] = "gm_ret"
          /\ ip[t] = IPc
          /\ mac[t] = "DE:AD:BE:EF:00:01"
          /\ DOMAIN cache = {IPc}

\* an address that is neither bound to a local interface nor ever listed in
\* the neighbour table
Unknown(i) == i \notin LocalAddrs /\ RawMACs(i) = {}

\* C14: a call for an address that is neither local nor in the neighbour
\* table returns, and what it returns is ""
C14_UnknownAddressReturnsEmpty ==
    \A t \in 1..NumCallers :
        /\ (pc[t] = "c1_lock" /\ Unknown(ip[t])) ~> (pc[t] = "gm_ret")
        /\ []((pc[t] = "gm_ret" /\ Unknown(ip[t])) => mac[t] = "")

\* a call for such an address has returned "" while the other caller is
\* inside GetMACAddress too, the table not loaded and a loader registered
C14_Witness ==
    \E t, u \in Tasks :
        /\ t # u
        /\ pc[t] = "gm_ret" /\ ip[t] = IPb /\ mac[t] = ""
        /\ pc[u] \in MutexLockPcs
        /\ ~arpLoaded /\ loadARPTableFunc = "linux"

(***************************************************************************)
(* Properties of the host records                                          *)
(***************************************************************************)
\* the host records collected so far, or returned
HostRecords == IF mainpc = "returned" THEN result.ReachableHosts ELSE reachableHosts

\* C20: every host record has FoundVia ICMP, TCP or ICMP+TCP: ICMP when the
\* ICMP probe succeeded and no open port was found (always without UseTCP),
\* ICMP+TCP when it succeeded and a port is open, TCP when it failed and a
\* port is open
C20_FoundViaDetermined ==
    \A i \in 1..Len(HostRecords) :
        LET h == HostRecords[i]
        IN /\ h.FoundVia \in {"ICMP", "TCP", "ICMP+TCP"}
           /\ ~UseTCP => h.FoundVia = "ICMP"
           /\ \E t \in Tasks :
                /\ ip[t] = h.IP
                /\ h.OpenPorts = openPorts[t]
                /\ h.FoundVia = "ICMP" <=> (icmpReachable[t] /\ Len(openPorts[t]) = 0)
                /\ h.FoundVia = "ICMP+TCP" <=> (icmpReachable[t] /\ Len(openPorts[t]) > 0)
                /\ h.FoundVia = "TCP" <=> (~icmpReachable[t] /\ Len(openPorts[t]) > 0)

\* a scan has returned one host found by ICMP and TCP and one found by TCP
\* alone, the latter without MAC and host name
C20_Witness ==
    /\ mainpc = "returned"
    /\ \E i, j \in 1..Len(result.ReachableHosts) :
          /\ result.ReachableHosts[i].FoundVia = "ICMP+TCP"
          /\ result.ReachableHosts[j].FoundVia = "TCP"
          /\ result.ReachableHosts[j].MAC = ""
          /\ result.ReachableHosts[j].Hostname = ""

(***************************************************************************)
(* Properties of GetIPsFromSubnet and main                                 *)
(***************************************************************************)
\* all addresses of network c = <<address, prefix length>>, prefix length at
\* least 16, in ascending order as dotted strings
NetworkAddresses(c) ==
    LET size == Pow2(32 - c[2])
        low == c[1][3] * 256 + c[1][4]
        first == low - (low % size)
    IN [k \in 1..size |->
          IPString(<<c[1][1], c[1][2], (first + k - 1) \div 256, (first + k - 1) % 256>>)]

\* C17: for a network of more than 2 addresses GetIPsFromSubnet has returned its
\* 2^hostbits - 2 addresses between the network and the broadcast address, in
\* strictly ascending numeric order
C17_HostAddressesOfNetwork ==
    \A c \in SubnetChoices :
        (mainpc = "expanded" /\ c[2] <= 30 /\ subnet = CIDRString(c)) =>
            /\ ~expandErr
            /\ Len(ips) = Pow2(32 - c[2]) - 2
            /\ ips = SubSeq(NetworkAddresses(c), 2, Pow2(32 - c[2]) - 1)
            /\ \A i \in 1..(Len(ips) - 1) :
                  Uint32Less(BigEndianUint32(ParseIPv4(ips[i])),
                             BigEndianUint32(ParseIPv4(ips[i + 1])))

\* 192.168.1.9/30 has been expanded to 192.168.1.9 and 192.168.1.10
C17_Witness ==
    /\ subnet = CIDRString(<<<<192, 168, 1, 9>>, 30>>)
    /\ mainpc = "expanded"
    /\ ips = <<IPa, IPb>>

\* C18: for a /31 GetIPsFromSubnet has returned both addresses of the network in
\* ascending order, for a /32 its one address
C18_SmallNetworksUnfiltered ==
    \A c \in SubnetChoices :
        (mainpc = "expanded" /\ c[2] >= 31 /\ subnet = CIDRString(c)) =>
            /\ ~expandErr
            /\ Len(ips) = (IF c[2] = 31 THEN 2 ELSE 1)
            /\ ips = NetworkAddresses(c)

\* 192.168.1.9/31 has been expanded to 192.168.1.8 and 192.168.1.9
C18_Witness ==
    /\ subnet = CIDRString(<<<<192, 168, 1, 9>>, 31>>)
    /\ mainpc = "expanded"
    /\ ips = <<IPString(<<192, 168, 1, 8>>), IPa>>

\* C19: for an argument that is no network/mask pair GetIPsFromSubnet returns
\* an error and no list, and main exits: ScanSubnet is not entered, no
\* goroutine is started, the callback is not invoked
C19_MalformedSubnetNoScan ==
    (subnet \in MalformedSubnets /\ mainpc # "main") =>
        /\ expandErr
        /\ ips = <<>>
        /\ mainpc = "exit"
        /\ Tasks = {}
        /\ started = 0
        /\ wg = 0
        /\ progressLog = <<>>

\* main has exited on "not-a-subnet"
C19_Witness ==
    /\ subnet = <<"n", "o", "t", "-", "a", "-", "s", "u", "b", "n", "e", "t">>
    /\ mainpc = "exit"
    /\ expandErr

(***************************************************************************)
(* Properties of the enrichment                                            *)
(***************************************************************************)
\* C21: a goroutine is inside GetMACAddress, or about to call net.LookupAddr,
\* only if its ICMP probe succeeded, and the host record of a candidate
\* whose ICMP probe failed has an empty MAC and an empty Hostname
C21_EnrichmentOnlyAfterICMP ==
    /\ \A t \in Tasks : pc[t] \in EnrichmentPcs => icmpReachable[t]
    /\ \A t \in Tasks : \A i \in 1..Len(HostRecords) :
          (HostRecords[i].IP = ip[t] /\ ~icmpReachable[t])
              => HostRecords[i].MAC = "" /\ HostRecords[i].Hostname = ""

\* a scan with TCP probing has returned the record of a host that did not
\* answer the ICMP probe, and the record of one that did, with a host name
C21_Witness ==
    /\ mainpc = "returned"
    /\ \E t, u \in Tasks : \E i, j \in 1..Len(result.ReachableHosts) :
          /\ result.ReachableHosts[i].IP = ip[t] /\ ~icmpReachable[t]
          /\ result.ReachableHosts[j].IP = ip[u] /\ icmpReachable[u]
          /\ result.ReachableHosts[j].Hostname # ""

(***************************************************************************)
(* Properties of the scanner with UDP probing                              *)
(***************************************************************************)
\* C22: getOpenUDPPorts is called for a host only with UseUDP, only after
\* its pingIP and its TCP sweep are over, and only if the ICMP probe
\* succeeded or a TCP port was found open; for a host with a failed ICMP
\* probe and no open TCP port (as always without UseTCP) it is not called
\* and no UDP port is reported
C22_UDPOnlyForResponsiveHosts ==
    \A t \in Tasks :
        /\ udpSwept[t] =>
              /\ UseUDP
              /\ pc[t] \notin {"unborn", "acquire", "probe", "tcp", "udp"}
              /\ icmpReachable[t] \/ Len(tcpPorts[t]) > 0
        /\ (~icmpReachable[t] /\ Len(tcpPorts[t]) = 0) =>
              ~udpSwept[t] /\ udpPorts[t] = <<>>
        /\ ~UseTCP => tcpPorts[t] = <<>>

\* with UseUDP, one goroutine has finished without a UDP sweep, after a
\* failed ICMP probe and an empty TCP sweep, and another has swept the UDP
\* ports of a host that answered on TCP only
C22_Witness ==
    /\ UseUDP /\ UseTCP
    /\ \E t, u \in Tasks :
          /\ pc[t] = "done" /\ ~icmpReachable[t] /\ tcpPorts[t] = <<>> /\ ~udpSwept[t]
          /\ pc[u] = "done" /\ ~icmpReachable[u] /\ Len(tcpPorts[u]) > 0 /\ udpSwept[u]

\* C26: no port number occurs twice in the OpenPorts of a host record
C26_OpenPortsIsSet ==
    \A n \in 1..Len(HostRecords) :
        \A i, j \in 1..Len(HostRecords[n].OpenPorts) :
            i # j => HostRecords[n].OpenPorts[i] # HostRecords[n].OpenPorts[j]

(***************************************************************************)
(* Properties of pingIP                                                    *)
(***************************************************************************)
\* C25: pingIP returns no later than Timeout after the deadline was computed
C25_ReturnsByDeadline == pingpc = "returned" => now <= deadline

\* C24: pingIP returns true only if a packet from the target was read before
\* the deadline; a packet from another sender neither makes it return true
\* nor ends the loop; without a packet from the target it returns false
C24_SuccessOnlyFromTargetInTime ==
    /\ pingResult => \E i \in 1..Len(reads) : reads[i].peer = "target" /\ reads[i].at < deadline
    /\ (Len(reads) > 0 /\ reads[Len(reads)].peer # "target")
          => ~pingResult /\ (pingpc = "returned" => now >= deadline)
    /\ (pingpc = "returned" /\ \A i \in 1..Len(reads) : reads[i].peer # "target")
          => ~pingResult

(***************************************************************************)
(* Failures of single steps                                                *)
(***************************************************************************)
\* the MAC GetMACAddress returns for address i when no step fails: on Linux
\* the upper-cased entry of the neighbour table, else the hardware address
\* of the local interface that has the address, else none
EnvMAC(i) ==
    IF loadARPTableFunc = "linux" /\ i \in DOMAIN osTable /\ isValidMAC(osTable[i])
    THEN ToUpper(osTable[i])
    ELSE getMACFromLocalInterfaces(i)

\* the record of goroutine t as its own steps and the environment determine
\* it: m is the MAC
OwnRecord(t, m) ==
    [IP |-> ip[t], MAC |-> m, Hostname |-> hostname[t], OpenPorts |-> openPorts[t],
     FoundVia |-> FoundVia(icmpReachable[t], openPorts[t])]

\* C23: whatever fails in the goroutines (the ICMP probe, the TCP sweep, the
\* DNS lookup, the read of the neighbour table), the scan returns, with
\* every goroutine having incremented completed, called the progress
\* callback and released its slot; and the record of a host is the one its
\* own goroutine's steps determine, its MAC being the one of the
\* environment unless a table read of its own GetMACAddress call failed
C23_FailuresAreAbsorbed ==
    /\ [](\A t \in Tasks : \A i \in 1..Len(HostRecords) :
            HostRecords[i].IP = ip[t] =>
                \/ HostRecords[i] = OwnRecord(t, IF icmpReachable[t] THEN EnvMAC(ip[t]) ELSE "")
                \/ loadFailed[t] /\ HostRecords[i] = OwnRecord(t, ""))
    /\ [](mainpc = "returned" =>
            /\ result.Completed = Len(ips)
            /\ Len(progressLog) = Len(ips)
            /\ semaphore = 0)
    /\ <>(mainpc = "returned" /\ \A t \in Tasks : pc[t] = "done")

\* a scan has returned although one goroutine's ICMP probe failed and all
\* table reads and the DNS lookup of another failed; a third host's record
\* has its MAC and its name
C23_Witness ==
    /\ mainpc = "returned"
    /\ \E t, u \in Tasks : \E i \in 1..Len(result.ReachableHosts) :
          /\ t # u
          /\ icmpReachable[t] /\ loadFailed[t] /\ mac[t] = "" /\ hostname[t] = ""
          /\ result.ReachableHosts[i].IP = ip[u]
          /\ result.ReachableHosts[i].MAC # ""
          /\ result.ReachableHosts[i].Hostname # ""

(***************************************************************************)
(* The order of the steps of GetMACAddress                                 *)
(***************************************************************************)
\* a call log without its loader calls
Steps(log) == SelectSeq(log, LAMBDA e : e # "load")

\* the steps of a call all of whose lookups miss: the cache lookup, the scan
\* of the interfaces, the lookup after the load, the lookup after the
\* reload, sendARPRequest, and the last lookup
MissOrder == <<"miss", "local:miss", "miss", "miss", "arp", "miss">>

\* the same step with a result
Found(e) == IF e = "miss" THEN "hit" ELSE IF e = "local:miss" THEN "local:hit" ELSE e

\* C29: a call of GetMACAddress goes through its steps in order and stops at
\* the first that finds the MAC: after a hit at the first cache lookup it
\* returns without a scan of the interfaces, a loader call or sendARPRequest,
\* and sendARPRequest is called at most once per call, after the first
\* lookup, the scan of the interfaces, the lookup after the load and the
\* lookup after the reload have all returned empty
C29_ShortCircuit ==
    \A t \in Tasks :
        \E log \in {callLog[t]} : \E steps \in {Steps(log)} :
            /\ Len(steps) <= Len(MissOrder)
            /\ \A k \in 1..Len(steps) :
                  \/ steps[k] = MissOrder[k]
                  \/ k = Len(steps) /\ steps[k] = Found(MissOrder[k])
            /\ \A k \in 1..(Len(log) - 1) : log[k] \notin {"hit", "local:hit"}
            /\ (log # <<>> /\ log[1] = "hit") => (log = <<"hit">> /\ pc[t] = "gm_ret")
            /\ (log # <<>> /\ log[Len(log)] = "hit") => pc[t] = "gm_ret"
            /\ Cardinality({k \in 1..Len(log) : log[k] = "arp"}) <= 1
            /\ \A k \in 1..Len(steps) :
                  steps[k] = "arp" => SubSeq(steps, 1, k - 1) = SubSeq(MissOrder, 1, 4)

\* one call has returned after a hit at its first cache lookup while another
\* has called sendARPRequest, after four empty steps and two loader calls
C29_Witness ==
    \E t, u \in Tasks :
        /\ pc[t] = "gm_ret" /\ callLog[t] = <<"hit">>
        /\ callLog[u] = <<"miss", "local:miss", "load", "miss", "load", "miss", "arp">>

AfterAppendPcs == {"progLock", "progress", "callback", "release", "wgDone", "done"}
AfterProgressPcs == {"callback", "release", "wgDone", "done"}

\* how far a goroutine has come: 0 not started, 1 waiting for a slot,
\* 2 probing, 3 enriching, 4 and 5 appending, 6 and 7 before the progress
\* update, 8 in the callback, 9 before the release of the slot, 10 before
\* wg.Done, 11 finished
Stage(p) ==
    IF p = "unborn" THEN 0
    ELSE IF p = "acquire" THEN 1
    ELSE IF p = "probe" THEN 2
    ELSE IF p \in EnrichmentPcs THEN 3
    ELSE IF p = "appendLock" THEN 4
    ELSE IF p = "append" THEN 5
    ELSE IF p = "progLock" THEN 6
    ELSE IF p = "progress" THEN 7
    ELSE IF p = "callback" THEN 8
    ELSE IF p = "release" THEN 9
    ELSE IF p = "wgDone" THEN 10
    ELSE 11

\* C28: a goroutine holds a slot of the semaphore from its acquisition to its
\* one release; it probes, then enriches and appends its record if the host
\* is reachable, then increments completed and calls the progress callback
\* holding mu, and releases the slot only when the callback has returned;
\* wg.Wait returns only when every goroutine has released its slot
C28_TaskOrder ==
    /\ [](/\ semaphore = Cardinality(InPipeline)
          /\ completed = Cardinality({t \in Tasks : pc[t] \in AfterProgressPcs})
          /\ Len(progressLog) = completed
          /\ \A t \in Tasks :
                /\ pc[t] \in {"progress", "callback"} => mu = t
                /\ (\E i \in 1..Len(reachableHosts) : reachableHosts[i].IP = ip[t])
                      <=> (pc[t] \in AfterAppendPcs /\ isReachable(icmpReachable[t], openPorts[t]))
          /\ mainpc = "returned" => (semaphore = 0 /\ \A t \in Tasks : pc[t] = "done"))
    /\ [][\A t \in Tasks :
            /\ Stage(pc'[t]) >= Stage(pc[t])
            /\ Stage(pc'[t]) >= 7 => Stage(pc[t]) >= Stage(pc'[t]) - 1
            /\ semaphore' < semaphore =>
                  (\E u \in Tasks : pc[u] = "release" /\ pc'[u] = "wgDone")]_vars

\* one goroutine has released its slot after its callback, its host's record
\* appended, while another sits in the callback, holding its slot and mu
C28_Witness ==
    \E t, u \in Tasks :
        /\ pc[t] = "wgDone" /\ Len(reachableHosts) = 1 /\ reachableHosts[1].IP = ip[t]
        /\ pc[u] = "callback" /\ mu = u /\ semaphore = 1 /\ completed = 2

(***************************************************************************)
(* Properties of the loader when the neighbour table cannot be opened      *)
(***************************************************************************)
\* the step of goroutine t is a run of loadLinuxARPTable in which os.Open fails
OpenFails(t) ==
    /\ pc[t] \in {LoadBodyPc[k] : k \in 1..3}
    /\ pc'[t] # pc[t]
    /\ loadARPTableFunc = "linux"
    /\ ~arpLoaded
    /\ parses' = parses

\* how often the current GetMACAddress call of a goroutine has called the loader
Loads(log) == Cardinality({j \in 1..Len(log) : log[j] = "load"})

\* C31: a run of the Linux loader in which the table cannot be opened leaves
\* the cache and arpLoaded (false) as they were and releases the mutex; a call
\* for a non-local address that returns while the table is still not loaded
\* has made its three load attempts (whatever calls came before it), all of
\* them failed, and returns ""; and a call none of whose attempts failed
\* returns with the table loaded and with what the cache holds for the address
C31_OpenFailureIsRetried ==
    /\ [](\A t \in Tasks :
            (pc[t] = "gm_ret" /\ loadARPTableFunc = "linux" /\ ip[t] \notin LocalAddrs) =>
                /\ ~arpLoaded =>
                      (mac[t] = "" /\ loadFailed[t] /\ Loads(callLog[t]) = 3)
                /\ ~loadFailed[t] =>
                      (arpLoaded /\ mac[t] = CacheLookup(cache, ip[t])))
    /\ [][\A t \in Tasks :
            OpenFails(t) =>
                /\ cache' = cache
                /\ arpLoaded' = arpLoaded
                /\ mutex = t /\ mutex' = Unlocked
                /\ loadFailed'[t]]_vars

\* a caller whose previous call for a neighbour returned "" because the table
\* could not be opened (it was still not loaded when the current call began)
\* gets the neighbour's address from the current call
C31_Witness ==
    \E t \in Tasks :
        /\ pc[t] = "gm_ret" /\ loadARPTableFunc = "linux"
        /\ ip[t] = IPa /\ mac[t] # ""
        /\ ~loadedAtCall[t] /\ loadFailed[t]
        /\ prevCall[t].valid /\ prevCall[t].ip = IPa /\ prevCall[t].mac = ""

(***************************************************************************)
(* Properties of the loop of GetIPsFromSubnet                              *)
(***************************************************************************)
\* C32: GetIPsFromSubnet terminates for every valid IPv4 network of every
\* prefix length from /0 to /32: the loop ends after the last address of the
\* network, also when incrementIP wraps from 255.255.255.255 to 0.0.0.0
C32_EnumerationTerminates == <>(enumpc = "returned")

(***************************************************************************)
(* UDP probing and the hosts reported                                      *)
(***************************************************************************)
\* whether the scan without UseUDP reports the host of goroutine t, given
\* the outcomes of its ICMP probe and of its TCP sweep
ReportedWithoutUDP(t) == isReachable(icmpReachable[t], tcpPorts[t])

\* C33: with or without UseUDP, the hosts a scan returns are those the ICMP
\* and TCP outcomes alone make reachable, each once, with the MAC and the
\* hostname its ICMP outcome and its enrichment steps determine; the UDP
\* sweep changes nothing but the UDP ports of its host, so only OpenPorts
\* depends on it
C33_UDPNeverChangesHosts ==
    /\ [](/\ \A t \in Tasks :
                pc[t] = "combine" =>
                    isReachable(icmpReachable[t], tcpPorts[t] \o udpPorts[t])
                        = ReportedWithoutUDP(t)
          /\ mainpc = "returned" =>
                /\ {HostRecords[i].IP : i \in 1..Len(HostRecords)}
                      = {ip[t] : t \in {u \in Tasks : ReportedWithoutUDP(u)}}
                /\ Len(HostRecords) = Cardinality({u \in Tasks : ReportedWithoutUDP(u)})
                /\ \A t \in Tasks : \A i \in 1..Len(HostRecords) :
                      HostRecords[i].IP = ip[t] =>
                          /\ HostRecords[i].Hostname = hostname[t]
                          /\ HostRecords[i].MAC = mac[t]
                          /\ ~icmpReachable[t] => (mac[t] = "" /\ hostname[t] = "")
                          /\ icmpReachable[t] =>
                                (mac[t] = EnvMAC(ip[t]) \/ (loadFailed[t] /\ mac[t] = "")))
    /\ [][\A t \in Tasks :
            (pc[t] = "udp" /\ pc'[t] # "udp") =>
                UNCHANGED <<icmpReachable, tcpPorts, mac, hostname, reachableHosts,
                            resolverVars>>]_vars

\* a scan with UseUDP has returned two hosts: one found by ICMP whose UDP
\* ports answered, its MAC resolved, and one found by TCP only, whose UDP
\* ports were swept too
C33_Witness ==
    /\ mainpc = "returned" /\ UseUDP /\ UseTCP
    /\ Len(result.ReachableHosts) = 2
    /\ \E t, u \in Tasks :
          /\ icmpReachable[t] /\ udpPorts[t] # <<>> /\ mac[t] # ""
          /\ ~icmpReachable[u] /\ tcpPorts[u] # <<>> /\ udpSwept[u]

(***************************************************************************)
(* A scanner without slots                                                 *)
(***************************************************************************)
\* C34: with Concurrency = 0 and a non-empty candidate list no goroutine
\* ever gets past the send on the semaphore: a started goroutine stays at
\* it, no probe runs, nothing is completed, the progress callback is never
\* called, and ScanSubnet never returns
C34_ZeroConcurrencyBlocks ==
    (Concurrency = 0 /\ Len(ips) > 0) =>
        /\ \A t \in Tasks : pc[t] \in {"unborn", "acquire"}
        /\ semaphore = 0
        /\ completed = 0
        /\ progressLog = <<>>
        /\ reachableHosts = <<>>
        /\ mainpc # "returned"
        /\ wg = started

\* every goroutine of a scan of two candidates with Concurrency = 0 has been
\* started and waits at the semaphore, the main goroutine in wg.Wait
C34_Witness ==
    /\ Concurrency = 0 /\ Len(ips) = 2 /\ started = 2 /\ wg = 2
    /\ mainpc = "loop"
    /\ \A t \in Tasks : pc[t] = "acquire"

(***************************************************************************)
(* Properties of getOpenUDPPorts                                           *)
(***************************************************************************)
\* port number q is in the list l
InList(q, l) == \E j \in 1..Len(l) : l[j] = q

\* C35: a UDP port is in the list of open ports exactly if ReadFrom returned
\* at least one byte of its socket without an error, which it does only
\* before the read deadline; a failed DialUDP, a read that ends with an
\* error (the timeout included) or with an empty datagram, and the writes,
\* failed or not, add nothing; the probe is written at most twice per port,
\* the second time only after the first write failed
C35_OpenIffReplyRead ==
    /\ [](/\ Len(writes) <= 2
          /\ Len(writes) = 2 => ~writes[1]
          /\ \A j \in 1..Len(openUDP) : InList(openUDP[j], SubSeq(udpProbePorts, 1, portIdx - 1))
          /\ (sweeppc \in {"dial", "returned"} /\ portIdx > 1) =>
                (InList(udpProbePorts[portIdx - 1], openUDP)
                    <=> (lastRead.done /\ ~lastRead.err /\ lastRead.n >= 1))
          /\ (lastRead.done /\ ~lastRead.err) => waited < Timeout)
    /\ [][openUDP' # openUDP =>
            /\ sweeppc = "read" /\ waited < Timeout
            /\ lastRead'.done /\ ~lastRead'.err /\ lastRead'.n >= 1
            /\ openUDP' = Append(openUDP, udpProbePorts[portIdx])]_vars

\* the sweep has returned port 53 alone, and its last port was not added
\* although both writes failed, because the read timed out
C35_Witness ==
    /\ sweeppc = "returned"
    /\ openUDP = <<53>>
    /\ writes = <<FALSE, FALSE>>
    /\ lastRead.done /\ lastRead.err /\ waited = Timeout

(***************************************************************************)
(* The address part of the argument of GetIPsFromSubnet                    *)
(***************************************************************************)
\* C36: what GetIPsFromSubnet returns for address/prefix is what it returns
\* for the masked address with the same prefix: the host bits of the
\* argument do not matter
C36_DependsOnMaskedNetwork ==
    \A c \in SubnetChoices :
        (mainpc = "expanded" /\ subnet = CIDRString(c)) =>
            /\ ~expandErr
            /\ \E masked \in {GetIPsFromSubnet(CIDRString(<<MaskIP(c[1], c[2]), c[2]>>))} :
                  ~masked.err /\ ips = masked.ips

\* 192.168.1.100/28 has been expanded to the 14 host addresses of
\* 192.168.1.96/28
C36_Witness ==
    /\ subnet = CIDRString(<<<<192, 168, 1, 100>>, 28>>)
    /\ mainpc = "expanded"
    /\ Len(ips) = 14
    /\ ips[1] = IPString(<<192, 168, 1, 97>>)
    /\ ips = GetIPsFromSubnet(CIDRString(<<<<192, 168, 1, 96>>, 28>>)).ips

(***************************************************************************)
(* Properties of the vendor lookup                                         *)
(***************************************************************************)
\* the vendor database in use has an entry for the OUI prefix of MAC m
VendorKnown(m) ==
    /\ Len(NormalizeMAC(m)) >= 6
    /\ SubSeq(NormalizeMAC(m), 1, 6) \in DOMAIN ouiCache

\* C37: a lookup returns "" whenever the vendor database has no entry for
\* the MAC, the empty MAC of a host found without ICMP included, and
\* loadOUICache runs at most once however many lookups are made
C37_UnknownVendorIsEmpty ==
    /\ ouiLoads <= 1
    /\ lookups >= 1 => (ouiLoads = 1 /\ loadOUICacheOnce)
    /\ (lookups >= 1 /\ ~VendorKnown(lastLookup.mac)) => lastLookup.vendor = ""

=============================================================================
